---- MODULE Spec2Model ----
(***************************************************************************)
(* A model of the GrowMate soil-advisory engine: the GPS resolver, its     *)
(* memos and its profile refinement cascade (app/core/gps_resolver.py),    *)
(* the lime calculator (app/core/lime_calculator.py), the STCR fertilizer  *)
(* calculator (app/core/stcr_fertilizer.py), the farmer view               *)
(* (app/core/farmer_view.py) and the request entry point                   *)
(* (app/api_logic.py).                                                     *)
(*                                                                         *)
(* Numbers are fixed point.  Latitude and longitude are in thousandths of  *)
(* a degree (74.75 is 74750), pH values in hundredths (6.0 is 600), lime   *)
(* doses in hundredths of a tonne per hectare.                             *)
(***************************************************************************)
EXTENDS Integers, Sequences, FiniteSets, TLC

VARIABLES
    bounds,     \* GPSResolver.bounds: the bounding boxes, in load order
    profiles,   \* GPSResolver.profiles: taluk name -> regional profile
    gpsArgs,    \* arguments of the last get_profile call (or NoCall)
    gpsOut,     \* dictionary returned by the last get_profile call
    limeArgs,   \* arguments of the last calculate_lime call (or NoCall)
    limeOut,    \* LimeResult returned by the last calculate_lime call
    reqIn,      \* request_json of the last process_request call (or NoCall)
    reqOut,     \* what the call did: the dictionary returned, or the exception
    bagArgs,    \* arguments of the last convert_to_bags call (or NoCall)
    bagOut,     \* ShoppingItem returned by the last convert_to_bags call
    advArgs,    \* arguments of the last simplify_advisory call (or NoCall)
    advOut,     \* FarmerAdvisory returned by the last simplify_advisory call
    stcrArgs,   \* arguments of the last calculate_fertilizer call (or NoCall)
    stcrOut,    \* what the call did: the STCRResult returned, or the exception
    memo,       \* the lru_cache of resolve_taluk and of is_lowland
    workers,    \* what each parallel worker is doing in a memoized call
    now,        \* the clock datetime.now() reads: the day and the half of the day
    log,        \* the process_request calls made so far, in order
    http        \* the HTTP response of the /api/advisory endpoint

vars == <<bounds, profiles, gpsArgs, gpsOut, limeArgs, limeOut, reqIn,
         reqOut, bagArgs, bagOut, advArgs, advOut, stcrArgs, stcrOut, memo,
         workers, now, log,
         http>>

NoCall == [op |-> "none"]

\* the clock when the service starts: days are counted from that day
StartOfClock == [day |-> 0, half |-> "am"]

----------------------------------------------------------------------------
(* Small helpers                                                           *)

Min(S) == CHOOSE x \in S : \A y \in S : x <= y

Max(a, b) == IF a >= b THEN a ELSE b

\* what a call can do besides returning its result: raise an exception,
\* or (process_request) return an error dictionary
Raised(e)        == [kind |-> "raised", exception |-> e]
ErrorResult(msg) == [kind |-> "error", error |-> msg]

\* dict.get(key, default)
Get(d, key, default) == IF key \in DOMAIN d THEN d[key] ELSE default

\* The empty dictionary {}
EmptyDict == [x \in {} |-> "none"]

UpperCase ==
    <<"A", "B", "C", "D", "E", "F", "G", "H", "I", "J", "K", "L", "M",
      "N", "O", "P", "Q", "R", "S", "T", "U", "V", "W", "X", "Y", "Z">>
LowerCase ==
    <<"a", "b", "c", "d", "e", "f", "g", "h", "i", "j", "k", "l", "m",
      "n", "o", "p", "q", "r", "s", "t", "u", "v", "w", "x", "y", "z">>

\* str.lower() of one character
LowerChar(c) ==
    IF \E i \in 1..26 : UpperCase[i] = c
    THEN LowerCase[CHOOSE i \in 1..26 : UpperCase[i] = c]
    ELSE c

\* str.lower(): strings are sequences of characters
Lower(s) == [i \in DOMAIN s |-> LowerChar(s[i])]

\* The string constants of the override handling
StrLowland == <<"l", "o", "w", "l", "a", "n", "d">>

----------------------------------------------------------------------------
(* Reference data: what _load_data can have put in bounds and profiles     *)

Classes     == {"low", "medium", "high"}
PhClasses   == {"acidic", "neutral", "alkaline"}
Textures    == {"sandy", "sandy_loam", "lateritic", "clay_loam"}

ProfileSet ==
    [nitrogen_class : Classes, phosphorus_class : Classes,
     potassium_class : Classes, ph_class : PhClasses,
     soil_texture_class : Textures]

\* another profile, different from p in every field
NextClass(c)   == CASE c = "low" -> "medium" [] c = "medium" -> "high" [] OTHER -> "low"
NextPh(c)      == CASE c = "acidic" -> "neutral" [] c = "neutral" -> "alkaline" [] OTHER -> "acidic"
NextTexture(c) == CASE c = "sandy" -> "sandy_loam" [] c = "sandy_loam" -> "lateritic"
                    [] c = "lateritic" -> "clay_loam" [] OTHER -> "sandy"
Rot(p) ==
    [nitrogen_class     |-> NextClass(p.nitrogen_class),
     phosphorus_class   |-> NextClass(p.phosphorus_class),
     potassium_class    |-> NextClass(p.potassium_class),
     ph_class           |-> NextPh(p.ph_class),
     soil_texture_class |-> NextTexture(p.soil_texture_class)]

\* candidate rows of taluk_bounds_lookup.csv; the boxes overlap
BoxSet ==
    { [taluk |-> "Kundapura", min_lat |-> 13500, max_lat |-> 13700,
       min_lon |-> 74600, max_lon |-> 74900],
      [taluk |-> "Udupi", min_lat |-> 13200, max_lat |-> 13500,
       min_lon |-> 74650, max_lon |-> 74950],
      [taluk |-> "Karkala", min_lat |-> 13100, max_lat |-> 13400,
       min_lon |-> 74900, max_lon |-> 75100] }

\* number of rows loaded into bounds
MaxBoxes == 2

\* the lists of distinct rows of at most MaxBoxes rows, in any order
BoundsChoices ==
    UNION { { s \in [1..n -> BoxSet] : \A i, j \in 1..n : i # j => s[i] # s[j] }
            : n \in 0..MaxBoxes }

\* taluk_profiles.json: Udupi and Kundapura have a record and Karkala has
\* none (it falls back to Udupi's), or the file was not found at all
ProfilesChoices ==
    { [t \in {"Udupi", "Kundapura"} |-> IF t = "Udupi" THEN b ELSE Rot(b)]
      : b \in ProfileSet }
    \cup
    { EmptyDict }

\* coordinates the calls are made with (thousandths of a degree)
LatSet == {13000, 13360, 13400, 13550}
LonSet == {74690, 74700, 74750, 74780, 74950, 74960}

\* land_type_override: None, or a string
NoOverride == [kind |-> "none"]
Str(s)     == [kind |-> "str", s |-> s]
OverrideSet ==
    { NoOverride,
      Str(<< >>),
      Str(<<"L", "O", "W", "l", "a", "n", "d">>),
      Str(<<"u", "p", "l", "a", "n", "d">>) }

----------------------------------------------------------------------------
(* GPSResolver                                                             *)

\* resolve_taluk with open ranges: a point on the edge of a box is missed
resolve_taluk_Strict(lat, lon) ==
    LET hits == { i \in 1..Len(bounds) :
                    /\ bounds[i].min_lat < lat /\ lat < bounds[i].max_lat
                    /\ bounds[i].min_lon < lon /\ lon < bounds[i].max_lon }
    IN  IF hits = {} THEN "Udupi" ELSE bounds[Min(hits)].taluk

\* resolve_taluk: the first box, in load order, that contains the point
resolve_taluk(lat, lon) ==
    LET hits == { i \in 1..Len(bounds) :
                    /\ bounds[i].min_lat <= lat /\ lat <= bounds[i].max_lat
                    /\ bounds[i].min_lon <= lon /\ lon <= bounds[i].max_lon }
    IN  IF hits = {} THEN "Udupi" ELSE bounds[Min(hits)].taluk

\* get_agro_zone with the upper breakpoint given to the eastern band
get_agro_zone_UpperInclusive(lon) ==
    IF lon < 74750 THEN "coastal"
    ELSE IF lon >= 74950 THEN "ghats"
    ELSE "midland"

\* get_agro_zone
get_agro_zone(lon) ==
    IF lon < 74750 THEN "coastal"
    ELSE IF lon > 74950 THEN "ghats"
    ELSE "midland"

\* the river segments of is_lowland, (lat1, lon1, lat2, lon2)
RIVERS ==
    << <<13400, 74700, 13350, 74800>>,
       <<13450, 74750, 13420, 74700>>,
       <<13250, 74750, 13280, 74780>>,
       <<13600, 74650, 13650, 74700>> >>

\* threshold = 0.015 degree
threshold == 15

dist_sq(x1, y1, x2, y2) == (x1 - x2) * (x1 - x2) + (y1 - y2) * (y1 - y2)

\* d2 < threshold**2 for one segment.  With t = dot / l2 clamped to [0, 1],
\* the squared distance to the projection is |P-V|^2 when t = 0, |P-W|^2
\* when t = 1 and |P-V|^2 - dot^2 / l2 in between; the comparison is
\* multiplied through by l2 to stay in the integers.
NearSegment(r, lat, lon) ==
    LET vx  == r[1]
        vy  == r[2]
        wx  == r[3]
        wy  == r[4]
        l2  == dist_sq(vx, vy, wx, wy)
        dot == (lat - vx) * (wx - vx) + (lon - vy) * (wy - vy)
    IN  IF l2 = 0 THEN dist_sq(lat, lon, vx, vy) < threshold * threshold
        ELSE IF dot <= 0 THEN dist_sq(lat, lon, vx, vy) < threshold * threshold
        ELSE IF dot >= l2 THEN dist_sq(lat, lon, wx, wy) < threshold * threshold
        ELSE dist_sq(lat, lon, vx, vy) * l2 - dot * dot < threshold * threshold * l2

\* is_lowland
is_lowland(lat, lon) == \E i \in 1..Len(RIVERS) : NearSegment(RIVERS[i], lat, lon)

\* resolve_taluk and is_lowland are decorated with functools.lru_cache:
\* each has a cache keyed by the coordinate, and memo[f] lists the entries
\* of f's cache, least recently used first.

\* lru_cache(maxsize=...): the capacity of each cache, scaled down so that
\* the coordinates below fill it
maxsize == 2

\* the decorated methods
MemoFuncs == {"resolve_taluk", "is_lowland"}

\* the decorated method itself: what a miss computes
Uncached(f, c) ==
    IF f = "resolve_taluk" THEN Str(resolve_taluk(c[1], c[2]))
    ELSE [kind |-> "bool", v |-> is_lowland(c[1], c[2])]

\* the keys of a cache
MemoKeys(cache) == { cache[i].key : i \in 1..Len(cache) }

\* the value a cache holds for a key
MemoValue(cache, c) ==
    LET i == CHOOSE j \in 1..Len(cache) : cache[j].key = c
    IN  cache[i].value

\* the cache without the entry of a key
Without(cache, c) == SelectSeq(cache, LAMBDA e : e.key # c)

\* a hit: the entry becomes the most recently used one
Touch(cache, c) == Append(Without(cache, c), [key |-> c, value |-> MemoValue(cache, c)])

\* storing without a capacity: the entry is appended
Store_Unbounded(cache, c, v) ==
    IF c \in MemoKeys(cache) THEN cache
    ELSE Append(cache, [key |-> c, value |-> v])

\* storing a computed result: nothing when the key is there already, else
\* the least recently used entry makes room when the cache is full
Store(cache, c, v) ==
    IF c \in MemoKeys(cache) THEN cache
    ELSE IF Len(cache) >= maxsize
         THEN Append(Tail(cache), [key |-> c, value |-> v])
         ELSE Append(cache, [key |-> c, value |-> v])

\* the caches before any call
EmptyMemo == [f \in MemoFuncs |-> << >>]

\* a cache after a complete call for a key
AfterCall(cache, f, c) ==
    IF c \in MemoKeys(cache) THEN Touch(cache, c) ELSE Store(cache, c, Uncached(f, c))

\* what a call of the decorated method returns: the stored value on a hit,
\* the computed one on a miss
Memoized(f, c) ==
    IF c \in MemoKeys(memo[f]) THEN MemoValue(memo[f], c) ELSE Uncached(f, c)

\* self.resolve_taluk(lat, lon) and self.is_lowland(lat, lon) as get_profile
\* calls them
cached_resolve_taluk(lat, lon) == Memoized("resolve_taluk", <<lat, lon>>).s
cached_is_lowland(lat, lon) == Memoized("is_lowland", <<lat, lon>>).v

\* the topography flag with a case-sensitive comparison of the override
ComputeLowland_CaseSensitive(lat, lon, land_type_override) ==
    IF land_type_override.kind = "str" /\ Len(land_type_override.s) > 0
    THEN land_type_override.s = StrLowland
    ELSE cached_is_lowland(lat, lon)

\* get_profile, step 3: the topography flag
ComputeLowland(lat, lon, land_type_override) ==
    IF land_type_override.kind = "str" /\ Len(land_type_override.s) > 0
    THEN Lower(land_type_override.s) = StrLowland
    ELSE cached_is_lowland(lat, lon)

\* the zone rule with the sandy strip as wide as the coastal zone
ZoneRule_WideStrip(zone, lon, q) ==
    CASE zone = "coastal" ->
           [q EXCEPT !.texture = IF lon < 74750 THEN "sandy" ELSE @,
                     !.ph_class = "neutral"]
      [] zone = "ghats" ->
           [q EXCEPT !.texture = "clay_loam", !.ph_class = "acidic", !.n = "high"]
      [] zone = "midland" ->
           [q EXCEPT !.texture = IF @ \in {"sandy", "sandy_loam"} THEN "lateritic" ELSE @,
                     !.ph_class = "acidic"]
      [] OTHER -> q

\* the zone rule with ghats leaving the N class of the taluk
ZoneRule_GhatsKeepsN(zone, lon, q) ==
    CASE zone = "coastal" ->
           [q EXCEPT !.texture = IF lon < 74700 THEN "sandy" ELSE @,
                     !.ph_class = "neutral"]
      [] zone = "ghats" ->
           [q EXCEPT !.texture = "clay_loam", !.ph_class = "acidic"]
      [] zone = "midland" ->
           [q EXCEPT !.texture = IF @ \in {"sandy", "sandy_loam"} THEN "lateritic" ELSE @,
                     !.ph_class = "acidic"]
      [] OTHER -> q

\* get_profile, step 4: the zone rule
ZoneRule(zone, lon, q) ==
    CASE zone = "coastal" ->
           [q EXCEPT !.texture = IF lon < 74700 THEN "sandy" ELSE @,
                     !.ph_class = "neutral"]
      [] zone = "ghats" ->
           [q EXCEPT !.texture = "clay_loam", !.ph_class = "acidic", !.n = "high"]
      [] zone = "midland" ->
           [q EXCEPT !.texture = IF @ \in {"sandy", "sandy_loam"} THEN "lateritic" ELSE @,
                     !.ph_class = "acidic"]
      [] OTHER -> q

\* the topography adjustment with the K promotion the expert audit removed
TopoRule_PromoteK(lowland, q) ==
    IF lowland
    THEN [q EXCEPT !.texture = IF @ = "lateritic" THEN "clay_loam" ELSE @,
                   !.n = IF @ = "low" THEN "medium" ELSE @,
                   !.k = IF @ = "low" THEN "medium" ELSE @]
    ELSE q

\* get_profile: the topography adjustment
TopoRule(lowland, q) ==
    IF lowland
    THEN [q EXCEPT !.texture = IF @ = "lateritic" THEN "clay_loam" ELSE @,
                   !.n = IF @ = "low" THEN "medium" ELSE @]
    ELSE q

\* the heuristics with the topography adjustment applied before the zone rule
Cascade_TopoFirst(zone, lon, lowland, q) == ZoneRule(zone, lon, TopoRule(lowland, q))

\* get_profile: the order of the heuristics, zone rule then topography
Cascade(zone, lon, lowland, q) == TopoRule(lowland, ZoneRule(zone, lon, q))

\* get_profile, step 1: the base profile of the taluk, else Udupi's, else {}
BaseProfile(taluk) == Get(profiles, taluk, Get(profiles, "Udupi", EmptyDict))

\* get_profile
get_profile(lat, lon, land_type_override) ==
    LET t0      == cached_resolve_taluk(lat, lon)
        taluk   == IF t0 = "" THEN "Udupi" ELSE t0
        base    == BaseProfile(taluk)
        zone    == get_agro_zone(lon)
        lowland == ComputeLowland(lat, lon, land_type_override)
        q0      == [n        |-> Get(base, "nitrogen_class", "medium"),
                    p        |-> Get(base, "phosphorus_class", "medium"),
                    k        |-> Get(base, "potassium_class", "medium"),
                    ph_class |-> Get(base, "ph_class", "acidic"),
                    texture  |-> Get(base, "soil_texture_class", "lateritic")]
        q       == Cascade(zone, lon, lowland, q0)
    IN  [taluk      |-> taluk,
         zone       |-> zone,
         topography |-> IF lowland THEN "Lowland" ELSE "Upland",
         n          |-> q.n,
         p          |-> q.p,
         k          |-> q.k,
         ph_class   |-> q.ph_class,
         texture    |-> q.texture]

----------------------------------------------------------------------------
(* The resolver as a state machine: the data is loaded once, then          *)
(* get_profile is called with any coordinate and override.  The result is  *)
(* a function of the loaded data and the arguments alone, so a behaviour   *)
(* makes one call.                                                         *)

InitResolver ==
    /\ bounds \in BoundsChoices
    /\ profiles \in ProfilesChoices
    /\ gpsArgs = NoCall
    /\ gpsOut = NoCall
    /\ limeArgs = NoCall
    /\ limeOut = NoCall
    /\ reqIn = NoCall
    /\ reqOut = NoCall
    /\ bagArgs = NoCall
    /\ bagOut = NoCall
    /\ advArgs = NoCall
    /\ advOut = NoCall
    /\ stcrArgs = NoCall
    /\ stcrOut = NoCall
    /\ memo = EmptyMemo
    /\ workers = NoCall
    /\ now = StartOfClock
    /\ log = << >>
    /\ http = NoCall

\* the caches after get_profile: resolve_taluk is always called, is_lowland
\* when there is no override
GetProfileCalls(lat, lon, land_type_override) ==
    [f \in MemoFuncs |->
        IF \/ f = "resolve_taluk"
           \/ ~(land_type_override.kind = "str" /\ Len(land_type_override.s) > 0)
        THEN AfterCall(memo[f], f, <<lat, lon>>)
        ELSE memo[f]]

GetProfile ==
    /\ gpsArgs = NoCall
    /\ \E lat \in LatSet, lon \in LonSet, ov \in OverrideSet :
        /\ gpsArgs' = [op |-> "get_profile", lat |-> lat, lon |-> lon,
                       land_type_override |-> ov]
        /\ gpsOut' = get_profile(lat, lon, ov)
        /\ memo' = GetProfileCalls(lat, lon, ov)
        /\ UNCHANGED <<bounds, profiles, limeArgs, limeOut, reqIn, reqOut, bagArgs, bagOut, advArgs, advOut, stcrArgs, stcrOut, workers, now, log, http>>

NextResolver == GetProfile

SpecResolver == InitResolver /\ [][NextResolver]_vars

----------------------------------------------------------------------------
(* LimeCalculator (app/core/lime_calculator.py)                            *)
(*                                                                         *)
(* pH values are in hundredths.  A dose in t/ha is kept as an exact        *)
(* fraction num / den until the code rounds it.  The code computes in      *)
(* binary floating point: where the exact value is a rounding tie of       *)
(* round(x, 2), or a whole number under int(x), the float may fall on      *)
(* either side, so both outcomes are results of the call.  Away from       *)
(* those points the float error is far below the distance to the next      *)
(* tie and the result is the exact one.                                    *)

\* absent optional argument (None)
None == [kind |-> "none"]
Num(v) == [kind |-> "num", v |-> v]

\* round(n / d) to the nearest integer, for n >= 0 and d > 0: the values
\* the float computation can give (both neighbours at a tie)
Round(n, d) ==
    LET q == n \div d
        r == n % d
    IN  IF 2 * r < d THEN {q}
        ELSE IF 2 * r > d THEN {q + 1}
        ELSE {q, q + 1}

\* int(n / d) for n >= 0 and d > 0: the values the float computation can
\* give (a float just below a whole number truncates to the one before)
Trunc(n, d) ==
    IF n % d = 0 /\ n > 0 THEN {n \div d - 1, n \div d} ELSE {n \div d}

\* LimeProduct: name -> neutralizing value; an unknown name is dolomite
LimeProducts == {"calcite", "dolomite", "quicklime", "hydrated_lime", "shell_lime", "slag"}

NeutralizingValue(name) ==
    CASE name = "calcite"       -> 100
      [] name = "dolomite"      -> 109
      [] name = "quicklime"     -> 179
      [] name = "hydrated_lime" -> 136
      [] name = "shell_lime"    -> 85
      [] name = "slag"          -> 80

\* LimeCalculator._get_product: the name of the product used
get_product(name) == IF name \in LimeProducts THEN name ELSE "dolomite"

\* SMP_LIME_TABLE: (low, high, t/ha * 10), in the order of the dictionary
SMP_LIME_TABLE ==
    << <<680, 700, 5>>,  <<660, 680, 10>>, <<640, 660, 15>>, <<620, 640, 20>>,
       <<600, 620, 25>>, <<580, 600, 30>>, <<560, 580, 35>>, <<540, 560, 40>>,
       <<520, 540, 45>>, <<500, 520, 50>>, <<480, 500, 55>>, <<460, 480, 60>>,
       <<440, 460, 65>>, <<420, 440, 70>>, <<400, 420, 75>> >>

\* TEXTURE_FACTORS.get(texture, 1.0), times 10
TextureFactor(texture) ==
    CASE texture = "sandy"      -> 6
      [] texture = "sandy_loam" -> 8
      [] texture = "loam"       -> 10
      [] texture = "silt_loam"  -> 11
      [] texture = "clay_loam"  -> 12
      [] texture = "clay"       -> 15
      [] OTHER                  -> 10

\* TARGET_PH.get(soil_type, 6.5)
TargetPh(soil_type) ==
    CASE soil_type = "lateritic"     -> 600
      [] soil_type = "coastal_sandy" -> 650
      [] soil_type = "alluvial"      -> 650
      [] soil_type = "black_clay"    -> 700
      [] soil_type = "acid_saline"   -> 600
      [] OTHER                       -> 650

\* the short circuit taken only strictly above the target
NoLimeNeeded_Strict(soil_ph, target_ph) == soil_ph > target_ph

\* "Check if lime is needed": the test of both methods
NoLimeNeeded(soil_ph, target_ph) == soil_ph >= target_ph

\* the LimeResult of the short circuit of either method
NoLimeResult(c, method, confidence, warning) ==
    [needs_lime          |-> FALSE,
     lime_required_t_ha  |-> 0,
     product_amount_t_ha |-> 0,
     product_type        |-> get_product(c.product),
     bags_per_acre       |-> 0,
     target_ph           |-> TargetPh(c.soil_type),
     current_ph          |-> c.soil_ph,
     method_used         |-> method,
     confidence          |-> confidence,
     warnings            |-> <<warning>>]

\* the LimeResults of a computed dose num / den t/ha of CaCO3: the product
\* amount is dose * 100 / NV and bags_per_acre is int(product * 0.4 * 1000 / 50)
DoseResults(c, method, confidence, warnings, num, den) ==
    LET nv == NeutralizingValue(get_product(c.product))
    IN  { [needs_lime          |-> TRUE,
           lime_required_t_ha  |-> lime,
           product_amount_t_ha |-> amount,
           product_type        |-> get_product(c.product),
           bags_per_acre       |-> bags,
           target_ph           |-> TargetPh(c.soil_type),
           current_ph          |-> c.soil_ph,
           method_used         |-> method,
           confidence          |-> confidence,
           warnings            |-> warnings] :
          lime \in Round(num * 100, den),
          amount \in Round(num * 100 * 100, den * nv),
          bags \in Trunc(num * 100 * 8, den * nv) }

\* the table look-up with ranges open below and closed above
BaseLime_Closed(buffer_ph) ==
    LET hits == { i \in 1..Len(SMP_LIME_TABLE) :
                    SMP_LIME_TABLE[i][1] < buffer_ph /\ buffer_ph <= SMP_LIME_TABLE[i][2] }
        found == IF hits = {} THEN 0 ELSE SMP_LIME_TABLE[Min(hits)][3]
    IN  IF found = 0 /\ buffer_ph < 400 THEN 80 ELSE found

\* the table look-up of calculate_buffer_ph_method, t/ha * 10
BaseLime(buffer_ph) ==
    LET hits == { i \in 1..Len(SMP_LIME_TABLE) :
                    SMP_LIME_TABLE[i][1] <= buffer_ph /\ buffer_ph < SMP_LIME_TABLE[i][2] }
        found == IF hits = {} THEN 0 ELSE SMP_LIME_TABLE[Min(hits)][3]
    IN  IF found = 0 /\ buffer_ph < 400 THEN 80 ELSE found

\* LimeCalculator.calculate_buffer_ph_method (buffer_ph is not None)
calculate_buffer_ph_method(c) ==
    IF NoLimeNeeded(c.soil_ph, TargetPh(c.soil_type))
    THEN {NoLimeResult(c, "buffer_ph", "high", "no_lime_ph_sufficient")}
    ELSE
        LET base == BaseLime(c.buffer_ph.v)
            num  == base * TextureFactor(c.soil_texture) * c.depth_cm
            den  == 10 * 10 * 15
            w1   == IF base = 80 /\ c.buffer_ph.v < 400 THEN <<"very_acidic_lime_twice">> ELSE << >>
            w2   == IF num > 4 * den THEN <<"split_application">> ELSE << >>
        IN  DoseResults(c, "buffer_ph", "high", w1 \o w2, num, den)

\* LimeCalculator.calculate_empirical_method
calculate_empirical_method(c) ==
    IF NoLimeNeeded(c.soil_ph, TargetPh(c.soil_type))
    THEN {NoLimeResult(c, "empirical", "medium", "no_lime_needed")}
    ELSE
        LET ph_deficit == TargetPh(c.soil_type) - c.soil_ph
            factor     == IF c.soil_texture \in {"clay", "clay_loam"} THEN 15
                          ELSE IF c.soil_texture \in {"loam", "silt_loam"} THEN 10
                          ELSE 7
            num        == ph_deficit * factor * c.depth_cm
            den        == 100 * 10 * 15
        IN  DoseResults(c, "empirical", "medium", <<"do_buffer_ph_test">>, num, den)

\* LimeCalculator.calculate / calculate_lime: the results of the call
calculate_lime(c) ==
    IF c.buffer_ph # None
    THEN calculate_buffer_ph_method(c)
    ELSE calculate_empirical_method(c)

\* the arguments calculate_lime is called with
SoilPhSet    == {450, 599, 600, 601, 650, 700}
BufferPhSet  == {None, Num(390), Num(400), Num(540), Num(600), Num(620), Num(699), Num(700)}
LimeTextures == {"sandy", "sandy_loam", "loam", "silt_loam", "clay_loam", "clay", "lateritic"}
SoilTypes    == {"lateritic", "coastal_sandy", "alluvial", "black_clay", "acid_saline", "red_loam"}
DepthSet     == {10, 15, 30}
ProductSet   == LimeProducts \cup {"gypsum"}

LimeArgSet ==
    [soil_ph : SoilPhSet, buffer_ph : BufferPhSet, soil_texture : LimeTextures,
     soil_type : SoilTypes, depth_cm : DepthSet, product : ProductSet]

InitLime ==
    /\ bounds = << >>
    /\ profiles = EmptyDict
    /\ gpsArgs = NoCall
    /\ gpsOut = NoCall
    /\ limeArgs = NoCall
    /\ limeOut = NoCall
    /\ reqIn = NoCall
    /\ reqOut = NoCall
    /\ bagArgs = NoCall
    /\ bagOut = NoCall
    /\ advArgs = NoCall
    /\ advOut = NoCall
    /\ stcrArgs = NoCall
    /\ stcrOut = NoCall
    /\ memo = EmptyMemo
    /\ workers = NoCall
    /\ now = StartOfClock
    /\ log = << >>
    /\ http = NoCall

CalculateLime ==
    /\ limeArgs = NoCall
    /\ \E c \in LimeArgSet :
        /\ limeArgs' = c
        /\ limeOut' \in calculate_lime(c)
        /\ UNCHANGED <<bounds, profiles, gpsArgs, gpsOut, reqIn, reqOut, bagArgs, bagOut, advArgs, advOut, stcrArgs, stcrOut, memo, workers, now, log, http>>

NextLime == CalculateLime

SpecLime == InitLime /\ [][NextLime]_vars

----------------------------------------------------------------------------
(* The STCR fertilizer calculator: app/core/stcr_fertilizer.py             *)
(*                                                                         *)
(* Yields are in tenths of their unit, uptakes per unit yield in tenths,   *)
(* soil contribution coefficients in tenths, P fixation in hundredths.     *)
(*  Requirements and product masses are exact fractions until  *)
(* round(x, 1) turns them into tenths of a kg (or of a gram per plant).    *)

StrPaddy    == <<"p", "a", "d", "d", "y">>
StrArecanut == <<"a", "r", "e", "c", "a", "n", "u", "t">>
StrCoconut  == <<"c", "o", "c", "o", "n", "u", "t">>
StrFingerMillet == <<"f", "i", "n", "g", "e", "r", "_", "m", "i", "l", "l", "e", "t">>
StrBanana   == <<"b", "a", "n", "a", "n", "a">>
StrPepper   == <<"p", "e", "p", "p", "e", "r">>
StrGinger   == <<"g", "i", "n", "g", "e", "r">>
StrTurmeric == <<"t", "u", "r", "m", "e", "r", "i", "c">>

\* the keys of CROP_NUTRIENT_UPTAKE
CROP_NUTRIENT_UPTAKE ==
    {StrPaddy, StrFingerMillet, StrArecanut, StrCoconut, StrBanana, StrPepper,
     StrGinger, StrTurmeric}

\* a crop with yield-based uptake
YieldCrop(n, p, k, lo, hi, typical) ==
    [n_uptake |-> n, p_uptake |-> p, k_uptake |-> k, min_yield |-> lo,
     max_yield |-> hi, typical_yield |-> typical, fixed_dose |-> FALSE,
     n_per_plant |-> 0, p_per_plant |-> 0, k_per_plant |-> 0]

\* a plantation crop with a fixed dose per palm or vine, in grams; its
\* uptake figures are never read
FixedCrop(lo, hi, typical, dn, dp, dk) ==
    [min_yield |-> lo, max_yield |-> hi, typical_yield |-> typical,
     fixed_dose |-> TRUE, n_per_plant |-> dn, p_per_plant |-> dp, k_per_plant |-> dk]

\* CROP_NUTRIENT_UPTAKE[crop]
CropData(crop) ==
    CASE crop = StrPaddy        -> YieldCrop(220, 45, 250, 20, 80, 45)
      [] crop = StrFingerMillet -> YieldCrop(280, 50, 300, 15, 40, 25)
      [] crop = StrArecanut     -> FixedCrop(10, 30, 20, 100, 40, 140)
      [] crop = StrCoconut      -> FixedCrop(500, 1500, 800, 500, 320, 1200)
      [] crop = StrBanana       -> YieldCrop(70, 15, 170, 300, 700, 500)
      [] crop = StrPepper       -> FixedCrop(10, 50, 20, 50, 20, 100)
      [] crop = StrGinger       -> YieldCrop(65, 15, 100, 80, 250, 150)
      [] crop = StrTurmeric     -> YieldCrop(50, 12, 80, 50, 150, 80)

\* SOIL_CONTRIBUTION[nutrient][status], tenths
SoilContribution(nutrient, status) ==
    IF nutrient = "phosphorus"
    THEN (CASE status = "low" -> 2 [] status = "medium" -> 4 [] status = "high" -> 6)
    ELSE (CASE status = "low" -> 3 [] status = "medium" -> 5 [] status = "high" -> 7)

PFixation_Flat(soil_type) == 30

\* P_FIXATION_FACTORS.get(soil_type, 0.30), hundredths
PFixation(soil_type) ==
    CASE soil_type = "lateritic"     -> 55
      [] soil_type = "coastal_sandy" -> 15
      [] soil_type = "alluvial"      -> 25
      [] soil_type = "black_clay"    -> 35
      [] OTHER                       -> 30

\* PREVIOUS_CROP_CREDITS.get(previous_crop, 0), kg/ha
PreviousCropCredit(previous_crop) ==
    CASE previous_crop = "groundnut"  -> 25
      [] previous_crop = "cowpea"     -> 35
      [] previous_crop = "green_gram" -> 25
      [] previous_crop = "black_gram" -> 20
      [] previous_crop = "soybean"    -> 30
      [] previous_crop = "dhaincha"   -> 40
      [] previous_crop = "sesbania"   -> 45
      [] OTHER                        -> 0

ClampYield_None(target_yield, crop_data) == target_yield

\* __init__, lines 273-277: the yield target kept in self.target_yield
ClampYield(target_yield, crop_data) ==
    IF target_yield < crop_data.min_yield THEN crop_data.min_yield
    ELSE IF target_yield > crop_data.max_yield THEN crop_data.max_yield
    ELSE target_yield

AtLeastZero_Identity(x) == x

\* max(0, x)
AtLeastZero(x) == Max(0, x)

\* a comparison x > y of two floats whose exact values may coincide
FloatGreater(x, y) == IF x = y THEN BOOLEAN ELSE {x > y}

\* the split table with half of the urea at each of the two later stages
get_splits_Halves(crop, urea, dap, mop) ==
    IF crop = StrPaddy
    THEN { << [stage |-> "basal", urea_kg |-> half, dap_kg |-> dap, mop_kg |-> mop_half],
              [stage |-> "tillering", urea_kg |-> half, dap_kg |-> 0, mop_kg |-> 0],
              [stage |-> "panicle", urea_kg |-> half, dap_kg |-> 0, mop_kg |-> mop_half] >> :
           half \in Round(urea, 2), mop_half \in Round(mop, 2) }
    ELSE { << [stage |-> "basal", urea_kg |-> half, dap_kg |-> dap, mop_kg |-> mop_half],
              [stage |-> "top_dress", urea_kg |-> half, dap_kg |-> dap, mop_kg |-> mop_half] >> :
           half \in Round(urea, 2), mop_half \in Round(mop, 2) }

\* _get_splits: the split table for product masses in tenths of a kg; the
\* two quarter shares of urea are the same expression, and so are the two
\* half shares of MOP
get_splits(crop, urea, dap, mop) ==
    IF crop = StrPaddy
    THEN { << [stage |-> "basal", urea_kg |-> half, dap_kg |-> dap, mop_kg |-> mop_half],
              [stage |-> "tillering", urea_kg |-> quarter, dap_kg |-> 0, mop_kg |-> 0],
              [stage |-> "panicle", urea_kg |-> quarter, dap_kg |-> 0, mop_kg |-> mop_half] >> :
           half \in Round(urea, 2), quarter \in Round(urea, 4), mop_half \in Round(mop, 2) }
    ELSE { << [stage |-> "basal", urea_kg |-> half, dap_kg |-> dap, mop_kg |-> mop_half],
              [stage |-> "top_dress", urea_kg |-> half, dap_kg |-> 0, mop_kg |-> mop_half] >> :
           half \in Round(urea, 2), mop_half \in Round(mop, 2) }

\* the STCRResults for given roundings of the requirements, product masses
\* in tenths, and the warnings and split tables that can go with them
StcrResults(crop, y, n_set, p_set, k_set, urea, dap, mop, n_credit, p_fix, warn_set, split_set) ==
    { [kind              |-> "result",
       crop              |-> crop,
       target_yield      |-> y,
       n_required        |-> n,
       p_required        |-> p,
       k_required        |-> k,
       urea_kg           |-> urea,
       dap_kg            |-> dap,
       mop_kg            |-> mop,
       n_credit          |-> n_credit,
       p_fixation_factor |-> p_fix,
       splits            |-> splits,
       warnings          |-> warnings] :
      n \in n_set, p \in p_set, k \in k_set, warnings \in warn_set, splits \in split_set }

\* the warnings of the yield-target path, in the order they are appended
StcrWarnings(above_typical, p_fix, n_credit) ==
    (IF above_typical THEN <<"target_above_typical">> ELSE << >>)
    \o (IF p_fix > 40 THEN <<"high_p_fixation">> ELSE << >>)
    \o (IF n_credit > 0 THEN <<"legume_credit">> ELSE << >>)

\* calculate, lines 287-374: the yield-target path.  With g = (100 -
\* p_fix) / 5 the exact values are n_required = n_num / 500, p_required =
\* 2 * p_num / (25 * g), k_required = k_num / 600, dap = p_required / 0.46
\* = 4 * p_num / (23 * g), urea = (n_required - 0.18 * dap) / 0.46 =
\* urea_num / (5290 * g), mop = k_required / 0.60 = k_num / 360
CalculateYieldTarget(a, crop, d, y) ==
    LET cs_n     == SoilContribution("nitrogen", a.soil_n)
        cs_p     == SoilContribution("phosphorus", a.soil_p)
        cs_k     == SoilContribution("potassium", a.soil_k)
        p_fix    == PFixation(a.soil_type)
        g        == (100 - p_fix) \div 5
        n_credit == PreviousCropCredit(a.previous_crop)
        n_num    == AtLeastZero(y * d.n_uptake * (10 - cs_n) - 1000 * n_credit)
        p_num    == AtLeastZero(y * d.p_uptake * (10 - cs_p))
        k_num    == AtLeastZero(y * d.k_uptake * (10 - cs_k))
        urea_num == AtLeastZero(23 * g * n_num - 360 * p_num)
    IN  UNION { StcrResults(crop, y, Round(n_num, 50), Round(4 * p_num, 5 * g),
                            Round(k_num, 60), urea, dap, mop, n_credit, p_fix,
                            { StcrWarnings(above, p_fix, n_credit) :
                              above \in FloatGreater(y * 10, d.typical_yield * 12) },
                            get_splits(crop, urea, dap, mop)) :
                urea \in Round(urea_num, 529 * g),
                dap \in Round(40 * p_num, 23 * g),
                mop \in Round(k_num, 36) }

\* the soil status adjustment of a fixed dose, in quarters
FixedDoseAdjustment(status) ==
    CASE status = "low" -> 4 [] status = "medium" -> 3 [] status = "high" -> 2

\* plants_per_ha of the fixed-dose path, which enters the summary text only
PlantsPerHa(crop) ==
    CASE crop = StrArecanut -> 1100
      [] crop = StrCoconut  -> 175
      [] crop = StrPepper   -> 1600
      [] OTHER              -> 1000

\* the split table of the fixed-dose path: percentages, not masses
FixedDoseSplits ==
    << [stage |-> "basal", n_pct |-> 50, p_pct |-> 100, k_pct |-> 50],
       [stage |-> "top_dress_1", n_pct |-> 25, p_pct |-> 0, k_pct |-> 25],
       [stage |-> "top_dress_2", n_pct |-> 25, p_pct |-> 0, k_pct |-> 25] >>

\* the fixed dose with the N of the DAP taken off the urea, as the
\* yield-target path does
CalculateFixedDose_Blended(a, crop, d, y) ==
    LET n4 == d.n_per_plant * FixedDoseAdjustment(a.soil_n)
        p4 == d.p_per_plant * FixedDoseAdjustment(a.soil_p)
        k4 == d.k_per_plant * FixedDoseAdjustment(a.soil_k)
    IN  UNION { StcrResults(crop, y, Round(n4 * 10, 4), Round(p4 * 10, 4), Round(k4 * 10, 4),
                            urea, dap, mop, 0, 0, {<< >>}, {FixedDoseSplits}) :
                urea \in Round(AtLeastZero(23 * n4 - 9 * p4) * 500, 92 * 23),
                dap \in Round(p4 * 500, 92),
                mop \in Round(k4 * 100, 24) }

\* _calculate_fixed_dose: requirements and product masses in grams per
\* plant; urea_kg, dap_kg and mop_kg of the result are those gram figures
CalculateFixedDose(a, crop, d, y) ==
    LET n4 == d.n_per_plant * FixedDoseAdjustment(a.soil_n)
        p4 == d.p_per_plant * FixedDoseAdjustment(a.soil_p)
        k4 == d.k_per_plant * FixedDoseAdjustment(a.soil_k)
    IN  UNION { StcrResults(crop, y, Round(n4 * 10, 4), Round(p4 * 10, 4), Round(k4 * 10, 4),
                            urea, dap, mop, 0, 0, {<< >>}, {FixedDoseSplits}) :
                urea \in Round(n4 * 500, 92),
                dap \in Round(p4 * 500, 92),
                mop \in Round(k4 * 100, 24) }

\* calculate_fertilizer: STCRCalculator(...).calculate(), everything the
\* call can do
calculate_fertilizer(a) ==
    LET crop == Lower(a.crop)
    IN  IF crop \notin CROP_NUTRIENT_UPTAKE THEN {Raised("ValueError")}
        ELSE LET d == CropData(crop)
                 y == ClampYield(a.target_yield, d)
             IN  IF d.fixed_dose
                 THEN CalculateFixedDose(a, crop, d, y)
                 ELSE CalculateYieldTarget(a, crop, d, y)

StcrCropSet ==
    {StrPaddy, <<"P", "A", "D", "D", "Y">>, StrFingerMillet, StrArecanut, StrCoconut,
     StrBanana, StrPepper, StrGinger, StrTurmeric, <<"w", "h", "e", "a", "t">>}
YieldSet        == {10, 25, 50, 54, 60, 100, 500, 1600}
StcrSoilTypes   == {"lateritic", "coastal_sandy", "alluvial", "black_clay", "acid_saline", "sandy"}
PreviousCropSet == {"fallow", "groundnut", "sesbania", "maize"}

StcrArgSet ==
    [crop : StcrCropSet, target_yield : YieldSet, soil_n : Classes, soil_p : Classes,
     soil_k : Classes, soil_type : StcrSoilTypes, previous_crop : PreviousCropSet]

InitStcr ==
    /\ bounds = << >>
    /\ profiles = EmptyDict
    /\ gpsArgs = NoCall
    /\ gpsOut = NoCall
    /\ limeArgs = NoCall
    /\ limeOut = NoCall
    /\ reqIn = NoCall
    /\ reqOut = NoCall
    /\ bagArgs = NoCall
    /\ bagOut = NoCall
    /\ advArgs = NoCall
    /\ advOut = NoCall
    /\ stcrArgs = NoCall
    /\ stcrOut = NoCall
    /\ memo = EmptyMemo
    /\ workers = NoCall
    /\ now = StartOfClock
    /\ log = << >>
    /\ http = NoCall

CalculateFertilizer ==
    /\ stcrArgs = NoCall
    /\ \E a \in StcrArgSet :
        /\ stcrArgs' = a
        /\ stcrOut' \in calculate_fertilizer(a)
        /\ UNCHANGED <<bounds, profiles, gpsArgs, gpsOut, limeArgs, limeOut, reqIn, reqOut, bagArgs, bagOut, advArgs, advOut, memo, workers, now, log, http>>

NextStcr == CalculateFertilizer

SpecStcr == InitStcr /\ [][NextStcr]_vars

----------------------------------------------------------------------------
(* The farmer view: app/core/farmer_view.py                                *)
(*                                                                         *)
(* Masses handed to convert_to_bags are in hundredths of a kg; the masses  *)
(* of a ShoppingItem (total_kg, loose_kg) are in tenths, as round(x, 1)    *)
(* leaves them.                                                            *)

StrUrea    == <<"u", "r", "e", "a">>
StrDap     == <<"d", "a", "p">>
StrMop     == <<"m", "o", "p">>
StrZinc    == <<"z", "i", "n", "c", "_", "s", "u", "l", "f", "a", "t", "e">>
StrBorax   == <<"b", "o", "r", "a", "x">>
StrMagSulf == <<"m", "a", "g", "n", "e", "s", "i", "u", "m", "_",
                "s", "u", "l", "f", "a", "t", "e">>
StrDolomite == <<"d", "o", "l", "o", "m", "i", "t", "e">>

\* BAG_SIZES.get(product.lower(), 50), in kg
BagSize(product) ==
    LET name == Lower(product)
    IN  CASE name = StrUrea    -> 45
          [] name = StrZinc    -> 10
          [] name = StrBorax   -> 1
          [] name = StrMagSulf -> 25
          [] OTHER             -> 50

RoundsUp_Never(loose, bag_size) == FALSE

\* loose > bag_size * 0.95, loose in tenths of a kg
RoundsUp(loose, bag_size) == loose * 10 > bag_size * 95

\* the ShoppingItem for a mass of kg tenths
BagItem(product, kg) ==
    LET bag_size == BagSize(product)
        bags     == kg \div (bag_size * 10)
        loose    == kg % (bag_size * 10)
        up       == RoundsUp(loose, bag_size)
    IN  [product_name |-> product,
         total_kg     |-> kg,
         bags         |-> IF up THEN bags + 1 ELSE bags,
         loose_kg     |-> IF up THEN 0 ELSE loose,
         bag_size     |-> bag_size]

\* convert_to_bags(product, kg_amount), kg_amount in hundredths: the items
\* round(kg_amount, 1) can lead to
convert_to_bags(product, kg_amount) ==
    { BagItem(product, kg) : kg \in Round(kg_amount, 10) }

\* largest mass handed to convert_to_bags, hundredths of a kg
MaxBagKg == 10100

BagProductSet ==
    {StrUrea, <<"D", "A", "P">>, StrMop, StrZinc, StrBorax, StrMagSulf,
     <<"n", "e", "e", "m">>}

InitBags ==
    /\ bounds = << >>
    /\ profiles = EmptyDict
    /\ gpsArgs = NoCall
    /\ gpsOut = NoCall
    /\ limeArgs = NoCall
    /\ limeOut = NoCall
    /\ reqIn = NoCall
    /\ reqOut = NoCall
    /\ bagArgs = NoCall
    /\ bagOut = NoCall
    /\ advArgs = NoCall
    /\ advOut = NoCall
    /\ stcrArgs = NoCall
    /\ stcrOut = NoCall
    /\ memo = EmptyMemo
    /\ workers = NoCall
    /\ now = StartOfClock
    /\ log = << >>
    /\ http = NoCall

ConvertToBags ==
    /\ bagArgs = NoCall
    /\ \E product \in BagProductSet, kg \in 0..MaxBagKg :
        /\ bagArgs' = [product |-> product, kg_amount |-> kg]
        /\ bagOut' \in convert_to_bags(product, kg)
        /\ UNCHANGED <<bounds, profiles, gpsArgs, gpsOut, limeArgs, limeOut, reqIn, reqOut, advArgs, advOut, stcrArgs, stcrOut, memo, workers, now, log, http>>

NextBags == ConvertToBags

SpecBags == InitBags /\ [][NextBags]_vars

----------------------------------------------------------------------------
(* simplify_advisory: manure credit and shopping list                      *)
(*                                                                         *)
(* The arguments urea_kg, dap_kg, mop_kg and manure_tons are in tenths,    *)
(* lime_t_ha in hundredths, zinc_kg in kg.  Per-acre masses are exact      *)
(* multiples of 1 / MassUnit kg: dividing by acre_factor 2.5 and by the    *)
(* nutrient contents 0.46 and 0.60 leaves denominators that divide it.     *)

MassUnit == 13800

\* MANURE_NUTRIENTS: n_pct, p_pct, k_pct in hundredths of a percent,
\* availability in tenths
MANURE_NUTRIENTS ==
    [t \in {"fym", "vermicompost", "poultry"} |->
        CASE t = "fym"          -> [n_pct |-> 50,  p_pct |-> 25,  k_pct |-> 50,  availability |-> 3]
          [] t = "vermicompost" -> [n_pct |-> 150, p_pct |-> 100, k_pct |-> 150, availability |-> 4]
          [] t = "poultry"      -> [n_pct |-> 300, p_pct |-> 250, k_pct |-> 150, availability |-> 5]]

\* calculate_manure_credit(manure_type, quantity_tons): effective N, P and
\* K in grams, quantity_tons in tenths
calculate_manure_credit(manure_type, quantity_tons) ==
    IF manure_type \notin DOMAIN MANURE_NUTRIENTS
    THEN [n |-> 0, p |-> 0, k |-> 0]
    ELSE LET data == MANURE_NUTRIENTS[manure_type]
         IN  [n |-> quantity_tons * data.n_pct * data.availability,
              p |-> quantity_tons * data.p_pct * data.availability,
              k |-> quantity_tons * data.k_pct * data.availability]

\* max(0, acre - reduction) without the floor
NetMass_NoFloor(acre, reduction) == acre - reduction

\* max(0, acre - reduction)
NetMass(acre, reduction) == Max(0, acre - reduction)

\* manure_type and manure_tons > 0
ManureApplies_Always(a) == a.manure_type # None

ManureApplies(a) ==
    /\ a.manure_type # None
    /\ a.manure_type.s # ""
    /\ a.manure_tons > 0

\* lines 375-396: the net per-acre masses, in 1 / MassUnit kg
NetMasses(a) ==
    LET urea_acre == a.urea_kg * (MassUnit \div 25)
        dap_acre  == a.dap_kg * (MassUnit \div 25)
        mop_acre  == a.mop_kg * (MassUnit \div 25)
    IN  IF ManureApplies(a)
        THEN LET credits == calculate_manure_credit(a.manure_type.s, a.manure_tons)
             IN  [urea |-> NetMass(urea_acre, credits.n * (MassUnit \div 460)),
                  dap  |-> NetMass(dap_acre, credits.p * (MassUnit \div 460)),
                  mop  |-> NetMass(mop_acre, credits.k * (MassUnit \div 600)),
                  credit |-> TRUE]
        ELSE [urea |-> urea_acre, dap |-> dap_acre, mop |-> mop_acre, credit |-> FALSE]

\* convert_to_bags of a mass given in 1 / MassUnit kg
BagsOfMass(product, mass) ==
    { BagItem(product, kg) : kg \in Round(mass * 10, MassUnit) }

\* details.get(key, 0) of a stage of the split table
SplitPct(details, key) == IF key \in DOMAIN details THEN details[key] ELSE 0

\* days_offset, lines 276-288: by the words in the name of the stage
DaysOffset(stage) ==
    IF stage = "basal" THEN 0
    ELSE IF stage \in {"tillering", "vegetative"} THEN 25
    ELSE IF stage \in {"panicle", "flowering"} THEN 55
    ELSE 45

\* lines 293-332: the products of a stage, urea, DAP and MOP in that
\* order, each listed when its share total * (pct / 100) is above 1 kg;
\* totals in 1 / MassUnit kg, the mass of an entry in 1 / (100 * MassUnit) kg
StageProducts(details, urea_total, dap_total, mop_total) ==
    LET split_urea == urea_total * SplitPct(details, "n_pct")
        split_dap  == dap_total * SplitPct(details, "p_pct")
        split_mop  == mop_total * SplitPct(details, "k_pct")
    IN  (IF split_urea > 100 * MassUnit
         THEN << [product |-> StrUrea, mass |-> split_urea] >> ELSE << >>)
        \o (IF split_dap > 100 * MassUnit
            THEN << [product |-> StrDap, mass |-> split_dap] >> ELSE << >>)
        \o (IF split_mop > 100 * MassUnit
            THEN << [product |-> StrMop, mass |-> split_mop] >> ELSE << >>)

\* generate_schedule: one ScheduleItem for every stage of the split table
\* that has a product, in the order of the table
RECURSIVE generate_schedule(_, _, _, _)
generate_schedule(splits, urea_total, dap_total, mop_total) ==
    IF splits = << >> THEN << >>
    ELSE LET details  == Head(splits)
             products == StageProducts(details, urea_total, dap_total, mop_total)
             rest     == generate_schedule(Tail(splits), urea_total, dap_total, mop_total)
         IN  IF products = << >> THEN rest
             ELSE << [stage_name  |-> details.stage,
                      days_offset |-> DaysOffset(details.stage),
                      products    |-> products] >> \o rest

\* simplify_advisory: the advisories the call can return (net masses,
\* whether a manure credit message is set, shopping list, schedule)
simplify_advisory(a) ==
    LET net  == NetMasses(a)
        lime == IF a.lime_t_ha > 25
                THEN {<<i>> : i \in BagsOfMass(StrDolomite, a.lime_t_ha * 4 * MassUnit)}
                ELSE {<< >>}
        zinc == IF a.zinc_kg > 5
                THEN {<<i>> : i \in BagsOfMass(StrZinc, a.zinc_kg * 2 * (MassUnit \div 5))}
                ELSE {<< >>}
    IN  { [net_urea_acre     |-> net.urea,
           net_dap_acre      |-> net.dap,
           net_mop_acre      |-> net.mop,
           manure_credit_msg |-> net.credit,
           shopping_list     |-> l \o <<u, d, k>> \o z,
           schedule          |-> generate_schedule(a.splits, net.urea, net.dap, net.mop)] :
          l \in lime, u \in BagsOfMass(StrUrea, net.urea),
          d \in BagsOfMass(StrDap, net.dap), k \in BagsOfMass(StrMop, net.mop),
          z \in zinc }

\* the split tables handed over: none, the one of the fixed-dose path, and
\* one of a paddy result
SplitsSet ==
    { << >>, FixedDoseSplits,
      << [stage |-> "basal", urea_kg |-> 1164, dap_kg |-> 2609, mop_kg |-> 868],
         [stage |-> "tillering", urea_kg |-> 582, dap_kg |-> 0, mop_kg |-> 0],
         [stage |-> "panicle", urea_kg |-> 582, dap_kg |-> 0, mop_kg |-> 868] >> }

AdvArgSet ==
    [urea_kg : {0, 4, 2327}, dap_kg : {0, 2609}, mop_kg : {0, 1736},
     zinc_kg : {0, 25}, lime_t_ha : {0, 25, 26, 250},
     manure_type : {None, Str(""), Str("fym"), Str("poultry"), Str("compost")},
     manure_tons : {0, 1, 30, 60, 300}, splits : SplitsSet]

InitAdvisory ==
    /\ bounds = << >>
    /\ profiles = EmptyDict
    /\ gpsArgs = NoCall
    /\ gpsOut = NoCall
    /\ limeArgs = NoCall
    /\ limeOut = NoCall
    /\ reqIn = NoCall
    /\ reqOut = NoCall
    /\ bagArgs = NoCall
    /\ bagOut = NoCall
    /\ advArgs = NoCall
    /\ advOut = NoCall
    /\ stcrArgs = NoCall
    /\ stcrOut = NoCall
    /\ memo = EmptyMemo
    /\ workers = NoCall
    /\ now = StartOfClock
    /\ log = << >>
    /\ http = NoCall

SimplifyAdvisory ==
    /\ advArgs = NoCall
    /\ \E a \in AdvArgSet :
        /\ advArgs' = a
        /\ advOut' \in simplify_advisory(a)
        /\ UNCHANGED <<bounds, profiles, gpsArgs, gpsOut, limeArgs, limeOut, reqIn, reqOut, bagArgs, bagOut, stcrArgs, stcrOut, memo, workers, now, log, http>>

NextAdvisory == SimplifyAdvisory

SpecAdvisory == InitAdvisory /\ [][NextAdvisory]_vars

----------------------------------------------------------------------------
(* The request entry point: app/api_logic.py                               *)
(*                                                                         *)
(* request_json is a record with one entry per key the handler reads; a    *)
(* key the request does not carry holds Absent.  A JSON value is Absent,   *)
(* None (null), Num(v) or Str(s).  Strings the code lower-cases (crop,     *)
(* land_type) and strings it parses as numbers are sequences of            *)
(* characters; the texture, which it only looks up, is a plain string.     *)
(* Numbers are in the unit of their field: lat and lon in thousandths,     *)
(* ph and zinc_ppm in hundredths, the nutrients in kg/ha, rain in mm,      *)
(* manure_loads in tractor loads.                                          *)

Absent == [kind |-> "absent"]

\* key in request_json
Has(r, key) == r[key].kind # "absent"

\* request_json.get(key): None when the key is missing
ReqGet(r, key) == IF Has(r, key) THEN r[key] ELSE None

\* float() of a string: the numeric literal "5.5" (a pH, in hundredths)
\* parses, any other text raises ValueError
FloatOfText(s) ==
    IF s = <<"5", ".", "5">>
    THEN [ok |-> TRUE, v |-> 550]
    ELSE [ok |-> FALSE, exc |-> "ValueError"]

\* float(x): a number converts, a string is parsed, None raises TypeError
Float(x) ==
    CASE x.kind = "num" -> [ok |-> TRUE, v |-> x.v]
      [] x.kind = "str" -> FloatOfText(x.s)
      [] OTHER          -> [ok |-> FALSE, exc |-> "TypeError"]

\* _get_status: a value float() rejects is reported as "medium"
get_status(val, nutrient) ==
    LET f == Float(val)
    IN  IF ~f.ok THEN "medium"
        ELSE IF nutrient = "n"
             THEN (IF f.v < 280 THEN "low" ELSE IF f.v > 560 THEN "high" ELSE "medium")
        ELSE IF nutrient = "p"
             THEN (IF f.v < 22 THEN "low" ELSE IF f.v > 55 THEN "high" ELSE "medium")
        ELSE IF nutrient = "k"
             THEN (IF f.v < 140 THEN "low" ELSE IF f.v > 330 THEN "high" ELSE "medium")
        ELSE "medium"

\* crop = request_json.get("crop", "Paddy")
CropOf(r) == IF Has(r, "crop") THEN r.crop ELSE Str(<<"P", "a", "d", "d", "y">>)

\* crop.lower() is defined on strings only
CanLower(x) == x.kind = "str"

\* A. precision mode, lines 125-142: the soil data read from the request,
\* or the error result, or the exception that leaves the try block
LabData(r) ==
    LET ph   == Float(r.ph)
        zinc == IF Has(r, "zinc_ppm") THEN Float(r.zinc_ppm) ELSE [ok |-> TRUE, v |-> 50]
    IN  IF ~ph.ok THEN ErrorResult("Invalid numeric values in Soil Data")
        ELSE IF ~Has(r, "phosphorus_kg_ha") THEN Raised("KeyError")
        ELSE IF ~Has(r, "potassium_kg_ha") THEN Raised("KeyError")
        ELSE IF ~zinc.ok THEN ErrorResult("Invalid numeric values in Soil Data")
        ELSE [kind       |-> "data",
              gps        |-> FALSE,
              ph         |-> ph.v,
              n_status   |-> get_status(r.nitrogen_kg_ha, "n"),
              p_status   |-> get_status(r.phosphorus_kg_ha, "p"),
              k_status   |-> get_status(r.potassium_kg_ha, "k"),
              soil_type  |-> IF Has(r, "texture") THEN r.texture.s ELSE "lateritic",
              zinc_val   |-> zinc.v,
              b_status   |-> "Unknown",
              s_status   |-> "Unknown",
              taluk      |-> "Lab",
              zone       |-> "User",
              topography |-> "User"]

\* the assumed pH with every soil taken as acidic
PhOfClass_Acidic(ph_class) == 550

\* ph = 5.5 if profile["ph_class"] == "acidic" else 6.5
PhOfClass(ph_class) == IF ph_class = "acidic" THEN 550 ELSE 650

\* B. GPS mode, lines 146-167
GpsData(r) ==
    LET lat  == Float(ReqGet(r, "lat"))
        lon  == Float(ReqGet(r, "lon"))
        land == ReqGet(r, "land_type")
        crop == CropOf(r)
    IN  IF ~lat.ok \/ ~lon.ok THEN ErrorResult("Invalid Latitude/Longitude")
        ELSE IF land.kind = "num" /\ land.v # 0 THEN Raised("AttributeError")
        ELSE IF ~CanLower(crop) THEN Raised("AttributeError")
        ELSE
            LET profile == get_profile(lat.v, lon.v,
                                       IF land.kind = "str" THEN land ELSE NoOverride)
            IN  [kind       |-> "data",
                 gps        |-> TRUE,
                 ph         |-> PhOfClass(profile.ph_class),
                 n_status   |-> profile.n,
                 p_status   |-> profile.p,
                 k_status   |-> profile.k,
                 soil_type  |-> profile.texture,
                 zinc_val   |-> 50,
                 b_status   |-> IF Lower(crop.s) \in {StrArecanut, StrCoconut}
                                THEN "Deficient" ELSE "Sufficient",
                 s_status   |-> IF profile.texture = "sandy" THEN "Deficient" ELSE "Sufficient",
                 taluk      |-> profile.taluk,
                 zone       |-> profile.zone,
                 topography |-> profile.topography]

\* 2. Determine Data Source, lines 124-170
SoilData(r) ==
    IF Has(r, "ph") /\ Has(r, "nitrogen_kg_ha") THEN LabData(r)
    ELSE IF ReqGet(r, "lat") # None /\ ReqGet(r, "lon") # None THEN GpsData(r)
    ELSE ErrorResult("Missing Soil Data or GPS Coordinates")

\* calculate_lime(ph, 6.0, soil_type): buffer pH 6.0, the soil type as the
\* texture, and the defaults of the remaining parameters
LimeCall(d) ==
    [soil_ph |-> d.ph, buffer_ph |-> Num(600), soil_texture |-> d.soil_type,
     soil_type |-> "lateritic", depth_cm |-> 15, product |-> "dolomite"]

\* weather_forecast_mm = float(request_json.get("rain_forecast_mm", 0.0) or 0.0)
RainForecast(r) ==
    LET x == IF Has(r, "rain_forecast_mm") THEN r.rain_forecast_mm ELSE Num(0)
    IN  IF x = None \/ x = Num(0) \/ x = Str(<< >>) THEN [ok |-> TRUE, v |-> 0] ELSE Float(x)

\* lines 188-193: manure_loads is float(request_json.get("manure_loads", 0)),
\* or 0 when float() raises; manure_tons = manure_loads * 3, in tenths
ManureTons(r) ==
    LET x == IF Has(r, "manure_loads") THEN r.manure_loads ELSE Num(0)
        f == Float(x)
    IN  IF f.ok THEN 30 * f.v ELSE 0

\* the manure arguments handed to simplify_advisory, lines 206-207
ManureCall(r) ==
    [manure_type |-> ReqGet(r, "manure_type"), manure_tons |-> ManureTons(r)]

\* a string in the format %Y-%m-%d that names a day
DateStr(d) == [kind |-> "str", s |-> "%Y-%m-%d", day |-> d]

\* datetime.now().strftime("%Y-%m-%d"): the time of day is dropped
strftime_ymd(t) == DateStr(t.day)

\* datetime.strptime(x, "%Y-%m-%d"): midnight of the day a date string
\* names; any other string raises ValueError, any other value TypeError
strptime_ymd(x) ==
    IF x.kind = "str" /\ "day" \in DOMAIN x
    THEN [ok |-> TRUE, t |-> [day |-> x.day, half |-> "am"]]
    ELSE [ok |-> FALSE]

\* sowing_date = request_json.get("sowing_date", datetime.now().strftime("%Y-%m-%d"))
SowingDateStr(r) == IF Has(r, "sowing_date") THEN r.sowing_date ELSE strftime_ymd(now)

\* the sowing date with the clock read whatever the request says
SowingDate_AlwaysNow(r) == now

\* simplify_advisory, lines 370-373: the parsed sowing date, or
\* datetime.now() when strptime raises
SowingDate(r) ==
    LET parsed == strptime_ymd(SowingDateStr(r))
    IN  IF parsed.ok THEN parsed.t ELSE now

\* sowing_date.strftime("%d-%m-%Y"): the day, without the time of day
strftime_dmy(t) == [dmy |-> t.day]

\* target_yield = 5.0 if crop.lower() == "paddy" else 2.5, in tenths
TargetYield(crop) == IF Lower(crop.s) = StrPaddy THEN 50 ELSE 25

\* calculate_fertilizer(crop, target_yield, soil_n, soil_p, soil_k,
\* soil_type), lines 178-185; previous_crop keeps its default
StcrCall(r, d) ==
    [crop |-> CropOf(r).s, target_yield |-> TargetYield(CropOf(r)),
     soil_n |-> d.n_status, soil_p |-> d.p_status, soil_k |-> d.k_status,
     soil_type |-> d.soil_type, previous_crop |-> "fallow"]

\* the arguments of simplify_advisory, lines 195-208: the product figures
\* of the STCR result as they are, zinc by the soil value, the lime dose,
\* the split table and the manure
AdvCall(r, d, lime, stcr) ==
    [urea_kg     |-> stcr.urea_kg,
     dap_kg      |-> stcr.dap_kg,
     mop_kg      |-> stcr.mop_kg,
     zinc_kg     |-> IF d.zinc_val < 60 THEN 25 ELSE 0,
     lime_t_ha   |-> lime.lime_required_t_ha,
     splits      |-> stcr.splits,
     manure_type |-> ManureCall(r).manure_type,
     manure_tons |-> ManureCall(r).manure_tons]

\* the response dictionary of lines 244-314, as far as it reports the soil
\* and the lime dose, whether it carries a manure credit message, the
\* sowing date of its summary card, the shopping list and the schedule
Response(r, d, lime, adv) ==
    [kind       |-> "returned",
     status     |-> "success",
     mode       |-> IF d.gps THEN "GPS Zone" ELSE "Lab Report",
     region     |-> IF d.gps THEN d.taluk ELSE "User Field",
     zone       |-> d.zone,
     topography |-> d.topography,
     crop       |-> CropOf(r),
     nitrogen   |-> d.n_status,
     phosphorus |-> d.p_status,
     potassium  |-> d.k_status,
     zinc       |-> IF d.zinc_val < 60 THEN "Deficient" ELSE "Sufficient",
     boron      |-> d.b_status,
     sulphur    |-> d.s_status,
     ph_status  |-> IF d.ph < 600 THEN "acidic" ELSE "neutral",
     ph_value   |-> d.ph,
     soil_type  |-> d.soil_type,
     lime_t_ha  |-> lime.lime_required_t_ha,
     savings_msg |-> adv.manure_credit_msg,
     sowing_date |-> strftime_dmy(SowingDate(r)),
     shopping_list |-> adv.shopping_list,
     schedule    |-> adv.schedule]

\* lines 173-316: the scientific models, the advisory and the response
RunModels(r, d) ==
    UNION { UNION { IF stcr.kind = "raised" THEN {stcr}
                    ELSE IF ~RainForecast(r).ok THEN {Raised(RainForecast(r).exc)}
                    ELSE { Response(r, d, lime, adv) :
                           adv \in simplify_advisory(AdvCall(r, d, lime, stcr)) } :
                    stcr \in calculate_fertilizer(StcrCall(r, d)) } :
            lime \in calculate_lime(LimeCall(d)) }

\* process_request: everything a call with request r can do
process_request(r) ==
    LET d    == SoilData(r)
        crop == CropOf(r)
    IN  IF d.kind # "data" THEN {d}
        ELSE IF ~CanLower(crop) THEN {Raised("AttributeError")}
        ELSE RunModels(r, d)

\* the caches after the call: in GPS mode get_profile calls resolve_taluk,
\* and is_lowland when there is no land type override
ResolverCalls(r) ==
    LET lat  == Float(ReqGet(r, "lat"))
        lon  == Float(ReqGet(r, "lon"))
        land == ReqGet(r, "land_type")
        auto == land = None \/ land = Str(<< >>) \/ land = Num(0)
    IN  IF /\ ~(Has(r, "ph") /\ Has(r, "nitrogen_kg_ha"))
           /\ ReqGet(r, "lat") # None /\ ReqGet(r, "lon") # None
           /\ lat.ok /\ lon.ok
        THEN [f \in MemoFuncs |->
                IF f = "resolve_taluk" \/ auto
                THEN AfterCall(memo[f], f, <<lat.v, lon.v>>)
                ELSE memo[f]]
        ELSE memo

\* the requests sent
StrAbc == <<"a", "b", "c">>

CropSet     == {Absent, None, Str(<<"P", "a", "d", "d", "y">>),
                Str(<<"A", "r", "e", "c", "a", "n", "u", "t">>),
                Str(<<"W", "h", "e", "a", "t">>)}
ReqLatSet   == {Absent, None, Num(13360), Str(StrAbc)}
ReqLonSet   == {Absent, Num(74690), Num(74960), Str(StrAbc)}
LandTypeSet == {Absent, Str(<<"L", "O", "W", "l", "a", "n", "d">>), Num(5)}
ReqPhSet    == {Absent, None, Num(650), Str(<<"5", ".", "5">>), Str(StrAbc)}
NitrogenSet == {Absent, None, Num(100), Str(StrAbc)}
PhosphorusSet == {Absent, Num(60), Str(StrAbc)}
PotassiumSet  == {Num(200), Str(StrAbc)}
ZincSet     == {Absent, Str(StrAbc)}
TextureSet  == {Absent, Str("sandy")}
RainSet     == {Absent, Num(60), Str(StrAbc)}
ManureLoadsSet == {Absent, Num(2), Str(StrAbc)}
ManureTypeSet  == {Absent, Str("fym")}
SowingDateSet  == {Absent}

RequestSet ==
    [crop : CropSet, lat : ReqLatSet, lon : ReqLonSet, land_type : LandTypeSet,
     ph : ReqPhSet, nitrogen_kg_ha : NitrogenSet, phosphorus_kg_ha : PhosphorusSet,
     potassium_kg_ha : PotassiumSet, zinc_ppm : ZincSet, texture : TextureSet,
     rain_forecast_mm : RainSet, manure_loads : ManureLoadsSet,
     manure_type : ManureTypeSet, sowing_date : SowingDateSet]

\* the module-level resolver: no data files found, or two boxes and their
\* profiles
ResolverData ==
    { << << >>, EmptyDict >>,
      << << [taluk |-> "Udupi", min_lat |-> 13200, max_lat |-> 13500,
             min_lon |-> 74650, max_lon |-> 74950],
            [taluk |-> "Karkala", min_lat |-> 13100, max_lat |-> 13400,
             min_lon |-> 74900, max_lon |-> 75100] >>,
         [t \in {"Udupi", "Karkala"} |->
            IF t = "Udupi"
            THEN [nitrogen_class |-> "low", phosphorus_class |-> "high",
                  potassium_class |-> "low", ph_class |-> "alkaline",
                  soil_texture_class |-> "sandy_loam"]
            ELSE [nitrogen_class |-> "medium", phosphorus_class |-> "low",
                  potassium_class |-> "high", ph_class |-> "neutral",
                  soil_texture_class |-> "lateritic"]] >> }

InitRequest ==
    /\ \E d \in ResolverData : bounds = d[1] /\ profiles = d[2]
    /\ gpsArgs = NoCall
    /\ gpsOut = NoCall
    /\ limeArgs = NoCall
    /\ limeOut = NoCall
    /\ reqIn = NoCall
    /\ reqOut = NoCall
    /\ bagArgs = NoCall
    /\ bagOut = NoCall
    /\ advArgs = NoCall
    /\ advOut = NoCall
    /\ stcrArgs = NoCall
    /\ stcrOut = NoCall
    /\ memo = EmptyMemo
    /\ workers = NoCall
    /\ now = StartOfClock
    /\ log = << >>
    /\ http = NoCall

ProcessRequest ==
    /\ reqIn = NoCall
    /\ \E r \in RequestSet :
        /\ reqIn' = r
        /\ reqOut' \in process_request(r)
        /\ memo' = ResolverCalls(r)
        /\ UNCHANGED <<bounds, profiles, gpsArgs, gpsOut, limeArgs, limeOut, bagArgs, bagOut, advArgs, advOut, stcrArgs, stcrOut, workers, now, log, http>>

NextRequest == ProcessRequest

SpecRequest == InitRequest /\ [][NextRequest]_vars

----------------------------------------------------------------------------
(* The endpoint POST /api/advisory: app/app.py                             *)
(*                                                                         *)
(* The payload is the request dictionary; the one without any key is {}.   *)

\* not data: the empty dictionary
EmptyPayload(r) == \A key \in DOMAIN r : r[key] = Absent

\* result.get("status")
ResultStatus(result) == IF "status" \in DOMAIN result THEN result.status ELSE "none"

\* status_code = 200; if result.get("status") == "error": status_code = 400
StatusCode(result) == IF ResultStatus(result) = "error" THEN 400 ELSE 200

\* the answer to what process_request did: jsonify(result) with the status
\* code, or 500 with the message of the exception
Answer(out) ==
    IF out.kind = "raised"
    THEN [status |-> 500, body |-> [status |-> "error", message |-> out.exception]]
    ELSE [status |-> StatusCode(out), body |-> out]

\* advisory(): the results of process_request, if it is called, and the
\* answers that go with them
advisory(r) ==
    IF EmptyPayload(r)
    THEN { [out  |-> NoCall,
            http |-> [payload |-> r, status |-> 400,
                      body |-> [status |-> "error",
                                message |-> "No JSON payload provided"]]] }
    ELSE { [out |-> out, http |-> [payload |-> r] @@ Answer(out)] :
           out \in process_request(r) }

Banana == Str(<<"B", "a", "n", "a", "n", "a">>)

PayloadSet ==
    [crop : {Absent, Str(<<"P", "a", "d", "d", "y">>),
             Str(<<"A", "r", "e", "c", "a", "n", "u", "t">>),
             Str(<<"C", "o", "c", "o", "n", "u", "t">>),
             Str(<<"P", "e", "p", "p", "e", "r">>), Banana,
             Str(<<"W", "h", "e", "a", "t">>)},
     lat : {Absent, Num(13360), Str(StrAbc)},
     lon : {Absent, Num(74690), Num(74720), Num(74800), Num(74960)},
     land_type : {Absent, Str(<<"l", "o", "w", "l", "a", "n", "d">>)},
     ph : {Absent, Num(550), Num(650), Str(StrAbc)},
     nitrogen_kg_ha : {Absent, Num(100), Num(600)},
     phosphorus_kg_ha : {Absent, Num(60)},
     potassium_kg_ha : {Absent, Num(200)},
     zinc_ppm : {Absent}, texture : {Absent}, rain_forecast_mm : {Absent},
     manure_loads : {Absent, Num(2)}, manure_type : {Absent, Str("fym")},
     sowing_date : {Absent}]

InitEndpoint ==
    /\ \E d \in ResolverData : bounds = d[1] /\ profiles = d[2]
    /\ gpsArgs = NoCall
    /\ gpsOut = NoCall
    /\ limeArgs = NoCall
    /\ limeOut = NoCall
    /\ reqIn = NoCall
    /\ reqOut = NoCall
    /\ bagArgs = NoCall
    /\ bagOut = NoCall
    /\ advArgs = NoCall
    /\ advOut = NoCall
    /\ stcrArgs = NoCall
    /\ stcrOut = NoCall
    /\ memo = EmptyMemo
    /\ workers = NoCall
    /\ now = StartOfClock
    /\ log = << >>
    /\ http = NoCall

Advisory ==
    /\ http = NoCall
    /\ \E r \in PayloadSet :
        \E a \in advisory(r) :
            /\ http' = a.http
            /\ reqIn' = IF a.out = NoCall THEN NoCall ELSE r
            /\ reqOut' = a.out
            /\ memo' = IF a.out = NoCall THEN memo ELSE ResolverCalls(r)
            /\ UNCHANGED <<bounds, profiles, gpsArgs, gpsOut, limeArgs, limeOut, bagArgs, bagOut, advArgs, advOut, stcrArgs, stcrOut, workers, now, log>>

NextEndpoint == Advisory

SpecEndpoint == InitEndpoint /\ [][NextEndpoint]_vars

----------------------------------------------------------------------------
(* The memos of resolve_taluk and is_lowland: functools.lru_cache          *)
(*                                                                         *)
(* A call looks the key up under the cache's lock: a hit moves the entry   *)
(* to the most recent end and returns the stored value; a miss runs the    *)
(* method with the lock released, so other workers' calls interleave, and  *)
(* then stores the result under the lock, unless the key was stored in the *)
(* meantime, evicting the least recently used entry when the cache is      *)
(* full.                                                                   *)

\* the workers that call the resolver in parallel
MaxWorkers == 2
Workers == 1..MaxWorkers

\* the coordinates the workers ask for
MemoCoords ==
    { <<13360, 74690>>, <<13360, 74960>>, <<13400, 74700>> }

Idle == [pc |-> "idle"]

\* the resolver has loaded its boxes; the caches are empty
InitMemo ==
    /\ \E d \in ResolverData : d[1] # << >> /\ bounds = d[1] /\ profiles = d[2]
    /\ gpsArgs = NoCall
    /\ gpsOut = NoCall
    /\ limeArgs = NoCall
    /\ limeOut = NoCall
    /\ reqIn = NoCall
    /\ reqOut = NoCall
    /\ bagArgs = NoCall
    /\ bagOut = NoCall
    /\ advArgs = NoCall
    /\ advOut = NoCall
    /\ stcrArgs = NoCall
    /\ stcrOut = NoCall
    /\ memo = EmptyMemo
    /\ workers = [w \in Workers |-> Idle]
    /\ now = StartOfClock
    /\ log = << >>
    /\ http = NoCall

\* a worker calls a memoized method and the key is in its cache
MemoHit(w) ==
    /\ workers[w].pc # "computing"
    /\ \E f \in MemoFuncs, c \in MemoCoords :
        /\ c \in MemoKeys(memo[f])
        /\ memo' = [memo EXCEPT ![f] = Touch(memo[f], c)]
        /\ workers' = [workers EXCEPT ![w] =
                         [pc |-> "returned", func |-> f, key |-> c,
                          result |-> MemoValue(memo[f], c)]]
    /\ UNCHANGED <<bounds, profiles, gpsArgs, gpsOut, limeArgs, limeOut, reqIn, reqOut, bagArgs, bagOut, advArgs, advOut, stcrArgs, stcrOut, now, log, http>>

\* a worker calls a memoized method and the key is not in its cache: the
\* method starts to run
MemoMiss(w) ==
    /\ workers[w].pc # "computing"
    /\ \E f \in MemoFuncs, c \in MemoCoords :
        /\ c \notin MemoKeys(memo[f])
        /\ workers' = [workers EXCEPT ![w] =
                         [pc |-> "computing", func |-> f, key |-> c]]
    /\ UNCHANGED <<bounds, profiles, gpsArgs, gpsOut, limeArgs, limeOut, reqIn, reqOut, bagArgs, bagOut, advArgs, advOut, stcrArgs, stcrOut, memo, now, log, http>>

\* the method has run: its result is stored and returned
MemoStore(w) ==
    /\ workers[w].pc = "computing"
    /\ LET f == workers[w].func
           c == workers[w].key
           v == Uncached(f, c)
       IN  /\ memo' = [memo EXCEPT ![f] = Store(memo[f], c, v)]
           /\ workers' = [workers EXCEPT ![w] =
                            [pc |-> "returned", func |-> f, key |-> c,
                             result |-> v]]
    /\ UNCHANGED <<bounds, profiles, gpsArgs, gpsOut, limeArgs, limeOut, reqIn, reqOut, bagArgs, bagOut, advArgs, advOut, stcrArgs, stcrOut, now, log, http>>

NextMemo == \E w \in Workers : MemoHit(w) \/ MemoMiss(w) \/ MemoStore(w)

SpecMemo == InitMemo /\ [][NextMemo]_vars

----------------------------------------------------------------------------
(* Repeated requests: process_request is called again and again while the  *)
(* clock advances and the resolver's caches fill.                          *)

\* the process_request calls of a behaviour
MaxCalls == 3

\* the last day the clock reaches
MaxDay == 1

\* a GPS request with every optional key missing
BaseRequest ==
    [crop |-> Str(<<"P", "a", "d", "d", "y">>), lat |-> Num(13360), lon |-> Num(74690),
     land_type |-> Absent, ph |-> Absent, nitrogen_kg_ha |-> Absent,
     phosphorus_kg_ha |-> Absent, potassium_kg_ha |-> Num(200), zinc_ppm |-> Absent,
     texture |-> Absent, rain_forecast_mm |-> Absent, manure_loads |-> Absent,
     manure_type |-> Absent, sowing_date |-> Absent]

\* the requests repeated: one place with a sowing date that is missing,
\* valid, or not a date; another place; a crop that is not in the table
ReplayRequestSet ==
    { [BaseRequest EXCEPT !.sowing_date = sd] : sd \in {Absent, DateStr(1), Str(StrAbc)} }
    \cup
    { [BaseRequest EXCEPT !.lon = Num(74960)],
      [BaseRequest EXCEPT !.crop = Str(<<"W", "h", "e", "a", "t">>)] }

InitReplay ==
    /\ \E d \in ResolverData : d[1] # << >> /\ bounds = d[1] /\ profiles = d[2]
    /\ gpsArgs = NoCall
    /\ gpsOut = NoCall
    /\ limeArgs = NoCall
    /\ limeOut = NoCall
    /\ reqIn = NoCall
    /\ reqOut = NoCall
    /\ bagArgs = NoCall
    /\ bagOut = NoCall
    /\ advArgs = NoCall
    /\ advOut = NoCall
    /\ stcrArgs = NoCall
    /\ stcrOut = NoCall
    /\ memo = EmptyMemo
    /\ workers = NoCall
    /\ now = StartOfClock
    /\ log = << >>
    /\ http = NoCall

\* time passes: the morning becomes the afternoon, the afternoon the next
\* morning
Tick ==
    /\ now.half = "am" \/ now.day < MaxDay
    /\ now' = IF now.half = "am" THEN [now EXCEPT !.half = "pm"]
              ELSE [day |-> now.day + 1, half |-> "am"]
    /\ UNCHANGED <<bounds, profiles, gpsArgs, gpsOut, limeArgs, limeOut, reqIn, reqOut, bagArgs, bagOut, advArgs, advOut, stcrArgs, stcrOut, memo, workers, log, http>>

\* one more process_request call
Invoke ==
    /\ Len(log) < MaxCalls
    /\ \E r \in ReplayRequestSet :
        /\ \E out \in process_request(r) :
              log' = Append(log, [request |-> r, at |-> now, result |-> out,
                                  cold |-> memo = EmptyMemo])
        /\ memo' = ResolverCalls(r)
    /\ UNCHANGED <<bounds, profiles, gpsArgs, gpsOut, limeArgs, limeOut, reqIn, reqOut, bagArgs, bagOut, advArgs, advOut, stcrArgs, stcrOut, workers, now, http>>

NextReplay == Tick \/ Invoke

SpecReplay == InitReplay /\ [][NextReplay]_vars

----------------------------------------------------------------------------
(* Properties of the resolver and of the refinement cascade                *)

Called == gpsArgs # NoCall

\* the boxes of bounds whose closed ranges contain the point of the call
BoxesAround ==
    { i \in 1..Len(bounds) :
        /\ gpsArgs.lat \in bounds[i].min_lat .. bounds[i].max_lat
        /\ gpsArgs.lon \in bounds[i].min_lon .. bounds[i].max_lon }

\* the regional record the call started from: the resolved taluk's, else
\* Udupi's, else none
BaseOfCall ==
    IF gpsOut.taluk \in DOMAIN profiles THEN profiles[gpsOut.taluk]
    ELSE IF "Udupi" \in DOMAIN profiles THEN profiles["Udupi"]
    ELSE EmptyDict

BaseK       == IF "potassium_class" \in DOMAIN BaseOfCall THEN BaseOfCall.potassium_class ELSE "medium"
BaseP       == IF "phosphorus_class" \in DOMAIN BaseOfCall THEN BaseOfCall.phosphorus_class ELSE "medium"
BaseN       == IF "nitrogen_class" \in DOMAIN BaseOfCall THEN BaseOfCall.nitrogen_class ELSE "medium"
BaseTexture == IF "soil_texture_class" \in DOMAIN BaseOfCall THEN BaseOfCall.soil_texture_class ELSE "lateritic"

\* C3: for every base profile, zone and topography get_profile returns the
\* potassium class and the phosphorus class of the base profile unchanged;
\* a low K class stays low on Lowland.
C3_KAndPUnchanged ==
    Called => /\ gpsOut.k = BaseK
              /\ gpsOut.p = BaseP

C3_Witness ==
    /\ Called
    /\ gpsOut.topography = "Lowland"
    /\ BaseK = "low"
    /\ gpsOut.k = "low"

\* C4: the zone rule is applied before the topography rule and the later
\* rule overwrites the earlier: at a midland Lowland point a base texture of
\* sandy, sandy_loam or lateritic resolves to clay_loam and a base N class of
\* low resolves to medium.
C4_ZoneThenTopography ==
    (Called /\ gpsOut.zone = "midland" /\ gpsOut.topography = "Lowland") =>
        /\ BaseTexture \in {"sandy", "sandy_loam", "lateritic"} => gpsOut.texture = "clay_loam"
        /\ BaseN = "low" => gpsOut.n = "medium"

C4_Witness ==
    /\ Called
    /\ gpsOut.zone = "midland"
    /\ gpsOut.topography = "Lowland"
    /\ BaseTexture = "sandy"
    /\ BaseN = "low"
    /\ gpsOut.texture = "clay_loam"
    /\ gpsOut.n = "medium"

\* C5 as stated: the zone is a step function of the longitude with the
\* breakpoints 74.75 and 74.95, and a longitude equal to a breakpoint is in
\* the more easterly band (74.75 midland, 74.95 ghats).
C5_Original ==
    Called =>
        gpsOut.zone = IF gpsArgs.lon < 74750 THEN "coastal"
                      ELSE IF gpsArgs.lon < 74950 THEN "midland"
                      ELSE "ghats"

\* C5 as amended: the zone is a step function of the longitude with the
\* breakpoints 74.75 and 74.95; coastal is strictly below 74.75, ghats is
\* strictly above 74.95, and both breakpoints themselves are midland.
C5_ZoneSteps ==
    Called =>
        /\ gpsArgs.lon < 74750 => gpsOut.zone = "coastal"
        /\ gpsArgs.lon \in 74750 .. 74950 => gpsOut.zone = "midland"
        /\ gpsArgs.lon > 74950 => gpsOut.zone = "ghats"

C5_Witness ==
    /\ Called
    /\ gpsArgs.lon = 74950
    /\ gpsOut.zone = "midland"

\* upper-case form of a letter of "lowland"
UpperOf(c) ==
    CASE c = "l" -> "L" [] c = "o" -> "O" [] c = "w" -> "W"
      [] c = "a" -> "A" [] c = "n" -> "N" [] c = "d" -> "D"

\* s is the word lowland, each letter in either case
IsLowlandIgnoringCase(s) ==
    /\ Len(s) = 7
    /\ \A i \in 1..7 :
          \/ s[i] = <<"l", "o", "w", "l", "a", "n", "d">>[i]
          \/ s[i] = UpperOf(<<"l", "o", "w", "l", "a", "n", "d">>[i])

OverrideGiven == gpsArgs.land_type_override.kind = "str" /\ gpsArgs.land_type_override.s # << >>

\* C6: with a non-empty land_type override the topography is Lowland exactly
\* when the override is "lowland" ignoring case and Upland otherwise,
\* whatever is_lowland computes for the coordinate.
C6_OverrideWins ==
    (Called /\ OverrideGiven) =>
        gpsOut.topography =
            IF IsLowlandIgnoringCase(gpsArgs.land_type_override.s) THEN "Lowland" ELSE "Upland"

\* a point on a river segment, overridden to Upland
C6_Witness ==
    /\ Called
    /\ OverrideGiven
    /\ gpsArgs.lat = 13400 /\ gpsArgs.lon = 74700
    /\ ~IsLowlandIgnoringCase(gpsArgs.land_type_override.s)
    /\ gpsOut.topography = "Upland"

\* C7: resolve_taluk returns the name of the first box, in load order, whose
\* closed ranges contain the point; inside exactly one box that box's name,
\* in no box the default Udupi, and get_profile then still returns a
\* complete profile.
C7_FirstBoxOrDefault ==
    Called =>
        /\ BoxesAround = {} => gpsOut.taluk = "Udupi"
        /\ BoxesAround # {} =>
              \E i \in BoxesAround :
                  /\ \A j \in BoxesAround : i <= j
                  /\ gpsOut.taluk = bounds[i].taluk
        /\ \A i \in BoxesAround : BoxesAround = {i} => gpsOut.taluk = bounds[i].taluk
        /\ gpsOut.n \in Classes /\ gpsOut.p \in Classes /\ gpsOut.k \in Classes
        /\ gpsOut.ph_class \in PhClasses
        /\ gpsOut.texture \in Textures
        /\ gpsOut.zone \in {"coastal", "midland", "ghats"}
        /\ gpsOut.topography \in {"Lowland", "Upland"}

\* boxes are loaded and none contains the point
C7_Witness ==
    /\ Called
    /\ Len(bounds) = 2
    /\ BoxesAround = {}
    /\ gpsOut.taluk = "Udupi"
    /\ gpsOut.n \in Classes

\* C8: in the ghats zone, whatever the base profile and the topography, the
\* texture is clay_loam, the ph_class acidic and the N class high.
C8_GhatsForced ==
    (Called /\ gpsArgs.lon > 74950) =>
        /\ gpsOut.texture = "clay_loam"
        /\ gpsOut.ph_class = "acidic"
        /\ gpsOut.n = "high"

C8_Witness ==
    /\ Called
    /\ gpsArgs.lon > 74950
    /\ gpsOut.topography = "Lowland"
    /\ BaseN = "low"
    /\ BaseTexture = "sandy"
    /\ gpsOut.n = "high"

----------------------------------------------------------------------------
(* Properties of the memos                                                 *)

\* the workers are running
MemoRunning == workers # NoCall

\* no cache is over its capacity
MemoBounded == \A f \in MemoFuncs : Len(memo[f]) <= maxsize

\* every stored value and every returned answer is what the method computes
MemoFaithful ==
    /\ \A f \in MemoFuncs : \A i \in 1..Len(memo[f]) :
          memo[f][i].value = Uncached(f, memo[f][i].key)
    /\ \A w \in Workers :
          workers[w].pc = "returned" =>
              workers[w].result = Uncached(workers[w].func, workers[w].key)

\* a step leaves the value of every key that stays in a cache as it was
MemoValueKept ==
    \A f \in MemoFuncs : \A c \in MemoKeys(memo[f]) \cap MemoKeys(memo'[f]) :
        MemoValue(memo'[f], c) = MemoValue(memo[f], c)

\* C18: under any interleaving of resolve_taluk and is_lowland calls by
\* parallel workers each memo holds at most maxsize entries, the value
\* stored for a coordinate is never changed, and every call returns what
\* the uncached method computes.
C18_MemoBoundedAndFaithful ==
    /\ [](MemoRunning => MemoBounded /\ MemoFaithful)
    /\ [][MemoRunning => MemoValueKept]_vars

\* a cache is full and a worker holds the answer for a key that has since
\* been evicted from it
C18_Witness ==
    /\ MemoRunning
    /\ \E f \in MemoFuncs :
        /\ Len(memo[f]) = maxsize
        /\ \E w \in Workers :
            /\ workers[w].pc = "returned" /\ workers[w].func = f
            /\ workers[w].key \notin MemoKeys(memo[f])

\* two workers missed the same key: one has stored its result while the
\* other is still running the method
MemoRace ==
    /\ MemoRunning
    /\ \E w \in Workers :
        /\ workers[w].pc = "computing"
        /\ workers[w].key \in MemoKeys(memo[workers[w].func])

----------------------------------------------------------------------------
(* Properties of repeated requests                                         *)

\* two calls of the log were made with the same request
SameRequest(i, j) == log[i].request = log[j].request

\* the request carries a sowing date that strptime accepts
DatedRequest(r) == Has(r, "sowing_date") /\ strptime_ymd(r.sowing_date).ok

SameDayRepeat ==
    /\ Len(log) >= 2
    /\ SameRequest(1, 2)
    /\ ~DatedRequest(log[1].request)
    /\ log[1].result.kind = "returned"
    /\ log[1].at.day = log[2].at.day /\ log[1].at.half # log[2].at.half

----------------------------------------------------------------------------
(* Properties of the lime calculator                                       *)

LimeCalled == limeArgs # NoCall

\* the target pH of the soil type of the call, as TARGET_PH lists it
TargetOfCall ==
    IF limeArgs.soil_type \in {"lateritic", "acid_saline"} THEN 600
    ELSE IF limeArgs.soil_type = "black_clay" THEN 700
    ELSE 650

\* C10: for every soil pH at or above the target pH, and every buffer pH
\* (given or not), texture, depth and product, calculate_lime returns
\* needs_lime false with zero lime, zero product and zero bags.
C10_NoLimeAtOrAboveTarget ==
    (LimeCalled /\ limeArgs.soil_ph >= TargetOfCall) =>
        /\ limeOut.needs_lime = FALSE
        /\ limeOut.lime_required_t_ha = 0
        /\ limeOut.product_amount_t_ha = 0
        /\ limeOut.bags_per_acre = 0

\* soil pH equal to the target, a buffer pH that would give a dose
C10_Witness ==
    /\ LimeCalled
    /\ limeArgs.soil_ph = 600
    /\ limeArgs.soil_type = "lateritic"
    /\ limeArgs.buffer_ph = Num(400)
    /\ limeOut.needs_lime = FALSE
    /\ limeOut.lime_required_t_ha = 0

\* C11: whenever the soil pH is at or above the target pH, the result of
\* the short-circuit carries the confidence tag "high", with a buffer pH
\* or without one.
C11_ShortCircuitHighConfidence ==
    (LimeCalled /\ limeArgs.soil_ph >= TargetOfCall) => limeOut.confidence = "high"

\* the call went through the buffer-pH method and computed a dose
BufferDose ==
    /\ LimeCalled
    /\ limeArgs.buffer_ph # None
    /\ limeArgs.soil_ph < TargetOfCall

\* the result carries the warning
LimeWarned(w) == \E i \in 1..Len(limeOut.warnings) : limeOut.warnings[i] = w

\* the ranges of SMP_LIME_TABLE that contain a buffer pH, low bound
\* included and high bound excluded
RangesOf(b) ==
    { i \in 1..Len(SMP_LIME_TABLE) : SMP_LIME_TABLE[i][1] <= b /\ b < SMP_LIME_TABLE[i][2] }

\* the dose the table gives for the buffer pH of the call, t/ha * 10,
\* before texture and depth scaling
TableDoseOfCall ==
    LET b == limeArgs.buffer_ph.v
    IN  IF RangesOf(b) # {} THEN SMP_LIME_TABLE[CHOOSE i \in RangesOf(b) : TRUE][3]
        ELSE IF b < 400 THEN 80 ELSE 0

\* C21: in the buffer-pH method the split-application warning is emitted
\* exactly when the table base dose, before texture and depth scaling,
\* exceeds 4 t/ha.
C21_SplitWarningOnBaseDose ==
    BufferDose => (LimeWarned("split_application") <=> TableDoseOfCall > 40)

C23_EmpiricalAlwaysFlagged ==
    (LimeCalled /\ limeArgs.buffer_ph = None) =>
        /\ limeOut.confidence = "medium"
        /\ LimeWarned("do_buffer_ph_test")

\* C28: a result with needs_lime true has a lime requirement and a product
\* amount above 0, for both methods.
C28_NeededLimeIsPositive ==
    (LimeCalled /\ limeOut.needs_lime) =>
        /\ limeOut.lime_required_t_ha > 0
        /\ limeOut.product_amount_t_ha > 0

----------------------------------------------------------------------------
(* Properties of the bag conversion                                        *)

BagCalled == bagArgs # NoCall

\* what the item stands for, in tenths of a kg
BagTotal == bagOut.bags * bagOut.bag_size * 10 + bagOut.loose_kg

\* the bag size the product has in BAG_SIZES, 50 for an unknown product
KnownBagSize ==
    LET name == Lower(bagArgs.product)
    IN  IF name = StrUrea THEN 45
        ELSE IF name = StrZinc THEN 10
        ELSE IF name = StrBorax THEN 1
        ELSE IF name = StrMagSulf THEN 25
        ELSE 50

\* C12: for every product and every mass >= 0, convert_to_bags returns
\* 0 <= loose_kg < bag_size and loose_kg <= 0.95 * bag_size, and
\* bags * bag_size + loose_kg is never less than the input rounded to
\* 0.1 kg and exceeds it by less than 5% of one bag.
C12_BagsCoverTheMass ==
    BagCalled =>
        /\ bagOut.bag_size = KnownBagSize
        /\ bagOut.total_kg \in Round(bagArgs.kg_amount, 10)
        /\ bagOut.bags >= 0
        /\ 0 <= bagOut.loose_kg
        /\ bagOut.loose_kg < bagOut.bag_size * 10
        /\ bagOut.loose_kg * 10 <= 95 * bagOut.bag_size
        /\ BagTotal >= bagOut.total_kg
        /\ (BagTotal - bagOut.total_kg) * 2 < bagOut.bag_size

\* 97.6 kg of DAP: one full bag, and the remainder of 47.6 kg becomes a
\* second bag
C12_Witness ==
    /\ BagCalled
    /\ bagArgs.product = <<"D", "A", "P">>
    /\ bagArgs.kg_amount = 9760
    /\ bagOut.bags = 2
    /\ bagOut.loose_kg = 0

\* the remainder of the rounded mass over whole bags, tenths of a kg
LooseRemainder == bagOut.total_kg % (bagOut.bag_size * 10)

\* C13: whenever the loose remainder is at least 95% of the bag size
\* (exactly 95% included), convert_to_bags returns one extra bag and
\* loose_kg = 0.
C13_RoundsUpFrom95Percent ==
    (BagCalled /\ LooseRemainder * 10 >= 95 * bagOut.bag_size) =>
        /\ bagOut.bags = bagOut.total_kg \div (bagOut.bag_size * 10) + 1
        /\ bagOut.loose_kg = 0

----------------------------------------------------------------------------
(* Properties of the manure credit                                         *)

AdvCalled == advArgs # NoCall

\* the net masses of the same call with manure_tons = 0
NoManure == NetMasses([advArgs EXCEPT !.manure_tons = 0])

ManureGiven ==
    /\ advArgs.manure_type # None
    /\ advArgs.manure_type.s # ""
    /\ advArgs.manure_tons > 0

KnownManure ==
    /\ advArgs.manure_type # None
    /\ advArgs.manure_type.s \in {"fym", "vermicompost", "poultry"}

\* C14 as stated: with a manure type and manure_tons > 0 the net urea, DAP
\* and MOP masses are each strictly smaller than with manure_tons = 0, and
\* never negative.
C14_Original ==
    (AdvCalled /\ ManureGiven) =>
        /\ advOut.net_urea_acre < NoManure.urea /\ advOut.net_urea_acre >= 0
        /\ advOut.net_dap_acre < NoManure.dap /\ advOut.net_dap_acre >= 0
        /\ advOut.net_mop_acre < NoManure.mop /\ advOut.net_mop_acre >= 0

\* C14: with a manure type and manure_tons > 0 the net urea, DAP and MOP
\* masses are never larger than with manure_tons = 0 and never negative;
\* a mass is strictly smaller exactly when the manure type is one of fym,
\* vermicompost and poultry and the mass without manure is above 0.
C14_ManureNeverAdds ==
    (AdvCalled /\ ManureGiven) =>
        /\ advOut.net_urea_acre <= NoManure.urea /\ advOut.net_urea_acre >= 0
        /\ advOut.net_dap_acre <= NoManure.dap /\ advOut.net_dap_acre >= 0
        /\ advOut.net_mop_acre <= NoManure.mop /\ advOut.net_mop_acre >= 0
        /\ advOut.net_urea_acre < NoManure.urea <=> (KnownManure /\ NoManure.urea > 0)
        /\ advOut.net_dap_acre < NoManure.dap <=> (KnownManure /\ NoManure.dap > 0)
        /\ advOut.net_mop_acre < NoManure.mop <=> (KnownManure /\ NoManure.mop > 0)

\* 30 t of poultry manure against 0.4 kg of urea per hectare: the credit
\* exceeds the mass, which ends at 0, while DAP and MOP are reduced
C14_Witness ==
    /\ AdvCalled
    /\ advArgs.manure_type = Str("poultry")
    /\ advArgs.manure_tons = 300
    /\ advArgs.urea_kg = 4
    /\ advArgs.dap_kg = 2609
    /\ advOut.net_urea_acre = 0
    /\ advOut.net_dap_acre < NoManure.dap
    /\ advOut.manure_credit_msg

----------------------------------------------------------------------------
(* Properties of the STCR calculator                                       *)

StcrCalled == stcrArgs # NoCall

StcrReturned == StcrCalled /\ stcrOut.kind = "result"

\* C15: for every crop, every combination of N, P and K statuses, soil
\* type, previous crop and target yield, the n_required, p_required and
\* k_required of the STCRResult and the urea, DAP and MOP masses are all
\* >= 0, on the yield-target path and on the fixed-dose path.
C15_NothingNegative ==
    StcrReturned =>
        /\ stcrOut.n_required >= 0
        /\ stcrOut.p_required >= 0
        /\ stcrOut.k_required >= 0
        /\ stcrOut.urea_kg >= 0
        /\ stcrOut.dap_kg >= 0
        /\ stcrOut.mop_kg >= 0

\* paddy at its minimum yield after sesbania on a soil high in N: the
\* credit of 45 kg exceeds what the crop needs from fertilizer
C15_Witness ==
    /\ StcrReturned
    /\ stcrArgs.crop = StrPaddy
    /\ stcrArgs.target_yield = 10
    /\ stcrArgs.soil_n = "high"
    /\ stcrArgs.previous_crop = "sesbania"
    /\ stcrOut.n_required = 0
    /\ stcrOut.urea_kg = 0
    /\ stcrOut.dap_kg > 0

\* the crop table entry of the call, for a crop of the table
CropOfCall == CropData(Lower(stcrArgs.crop))

KnownCropCall == StcrCalled /\ Lower(stcrArgs.crop) \in CROP_NUTRIENT_UPTAKE

\* the requested yield brought into [min_yield, max_yield]
ClampedYield ==
    IF stcrArgs.target_yield < CropOfCall.min_yield THEN CropOfCall.min_yield
    ELSE IF stcrArgs.target_yield > CropOfCall.max_yield THEN CropOfCall.max_yield
    ELSE stcrArgs.target_yield

\* C16: the target yield exposed in the STCRResult and used in the
\* computation is the requested yield clamped to the crop's range
\* (unchanged inside it, min_yield below, max_yield above); a request
\* outside the range returns a result like any other.
C16_YieldClamped ==
    KnownCropCall =>
        /\ stcrOut.kind = "result"
        /\ stcrOut.target_yield = ClampedYield
        /\ stcrOut.target_yield >= CropOfCall.min_yield
        /\ stcrOut.target_yield <= CropOfCall.max_yield
        /\ stcrOut \in calculate_fertilizer([stcrArgs EXCEPT !.target_yield = ClampedYield])

\* paddy asked for 10 t/ha: the result is the one for 8 t/ha
C16_Witness ==
    /\ StcrReturned
    /\ stcrArgs.crop = StrPaddy
    /\ stcrArgs.target_yield = 100
    /\ stcrOut.target_yield = 80

\* the reference scenario
GoldenCall ==
    /\ StcrCalled
    /\ Lower(stcrArgs.crop) = StrPaddy
    /\ stcrArgs.target_yield = 50
    /\ stcrArgs.soil_n = "low"
    /\ stcrArgs.soil_p = "medium"
    /\ stcrArgs.soil_k = "medium"
    /\ stcrArgs.soil_type = "lateritic"
    /\ stcrArgs.previous_crop = "fallow"

\* C20: for paddy with target yield 5.0, N/P/K low/medium/medium, soil
\* type lateritic and previous crop fallow, calculate_fertilizer applies
\* N credit 0 and P fixation 0.55 and returns N = 154 and P2O5 = 120 kg/ha,
\* DAP 260.9, urea 232.7 and MOP 173.6 kg.
C20_GoldenValues ==
    GoldenCall =>
        /\ stcrOut.kind = "result"
        /\ stcrOut.n_credit = 0
        /\ stcrOut.p_fixation_factor = 55
        /\ stcrOut.n_required = 1540
        /\ stcrOut.p_required = 1200
        /\ stcrOut.dap_kg = 2609
        /\ stcrOut.urea_kg = 2327
        /\ stcrOut.mop_kg = 1736

C20_Witness ==
    /\ GoldenCall
    /\ stcrArgs.crop = StrPaddy
    /\ stcrOut.kind = "result"
    /\ stcrOut.dap_kg = 2609
    /\ stcrOut.target_yield = 50

\* the call took the yield-target path / the fixed-dose path
YieldPath == StcrReturned /\ ~CropOfCall.fixed_dose
FixedPath == StcrReturned /\ CropOfCall.fixed_dose

\* the stages of the split table and the share of each product, in percent
SplitShares ==
    IF Lower(stcrArgs.crop) = StrPaddy
    THEN << [stage |-> "basal", urea_kg |-> 50, dap_kg |-> 100, mop_kg |-> 50],
            [stage |-> "tillering", urea_kg |-> 25, dap_kg |-> 0, mop_kg |-> 0],
            [stage |-> "panicle", urea_kg |-> 25, dap_kg |-> 0, mop_kg |-> 50] >>
    ELSE << [stage |-> "basal", urea_kg |-> 50, dap_kg |-> 100, mop_kg |-> 50],
            [stage |-> "top_dress", urea_kg |-> 50, dap_kg |-> 0, mop_kg |-> 50] >>

SplitProducts == {"urea_kg", "dap_kg", "mop_kg"}

\* the absolute value
Abs(x) == IF x < 0 THEN -x ELSE x

\* the masses of a product over the first n stages, added up
RECURSIVE StageSum(_, _, _)
StageSum(splits, product, n) ==
    IF n = 0 THEN 0 ELSE splits[n][product] + StageSum(splits, product, n - 1)

\* C24: for a yield-target crop every stage of STCRResult.splits holds the
\* total product times the stage's share, rounded to 0.1 kg (paddy: urea
\* 50/25/25, DAP 100/0/0, MOP 50/0/50; other crops: urea 50/50, DAP 100/0,
\* MOP 50/50), so the stage masses of a product add up to its total within
\* 0.05 kg per stage.
C24_SplitsAreShares ==
    YieldPath =>
        LET splits == stcrOut.splits
        IN  /\ Len(splits) = Len(SplitShares)
            /\ \A i \in 1..Len(splits) :
                /\ splits[i].stage = SplitShares[i].stage
                /\ \A q \in SplitProducts :
                      Abs(100 * splits[i][q] - stcrOut[q] * SplitShares[i][q]) <= 50
            /\ \A q \in SplitProducts :
                  100 * Abs(StageSum(splits, q, Len(splits)) - stcrOut[q]) <= 50 * Len(splits)

\* the paddy scenario: 232.7 kg of urea split into 116.3 or 116.4, 58.2 and
\* 58.2 kg, all 260.9 kg of DAP at basal, MOP in two halves of 86.8 kg
C24_Witness ==
    /\ YieldPath
    /\ stcrArgs.crop = StrPaddy
    /\ stcrOut.urea_kg = 2327 /\ stcrOut.dap_kg = 2609 /\ stcrOut.mop_kg = 1736
    /\ stcrOut.splits[1].urea_kg \in {1163, 1164}
    /\ stcrOut.splits[2].urea_kg = 582
    /\ stcrOut.splits[3].urea_kg = 582
    /\ stcrOut.splits[1].dap_kg = 2609
    /\ stcrOut.splits[3].mop_kg = 868

\* the adjustment factor of a soil status, in hundredths
StatusFactor(status) == IF status = "low" THEN 100 ELSE IF status = "medium" THEN 75 ELSE 50

\* C25: on the fixed-dose path n, p and k required are the crop's per-plant
\* grams times the factor of the nutrient's own soil status (low 1.0,
\* medium 0.75, high 0.5), and the per-plant urea, DAP and MOP grams are
\* n / 0.46, p / 0.46 and k / 0.60, each rounded to 0.1 g, with nothing
\* taken off the urea for the N of the DAP: the urea figure is the same
\* whatever the P status.
C25_FixedDoseIndependent ==
    FixedPath =>
        LET n == CropOfCall.n_per_plant * StatusFactor(stcrArgs.soil_n)
            p == CropOfCall.p_per_plant * StatusFactor(stcrArgs.soil_p)
            k == CropOfCall.k_per_plant * StatusFactor(stcrArgs.soil_k)
        IN  /\ Abs(10 * stcrOut.n_required - n) <= 5
            /\ Abs(10 * stcrOut.p_required - p) <= 5
            /\ Abs(10 * stcrOut.k_required - k) <= 5
            /\ Abs(46 * stcrOut.urea_kg - 10 * n) <= 23
            /\ Abs(46 * stcrOut.dap_kg - 10 * p) <= 23
            /\ Abs(60 * stcrOut.mop_kg - 10 * k) <= 30
            /\ \A s \in Classes :
                  \E other \in calculate_fertilizer([stcrArgs EXCEPT !.soil_p = s]) :
                      other.urea_kg = stcrOut.urea_kg

\* arecanut on a soil low in N and in P: 100 g of N gives 217.4 g of urea,
\* where a deduction for the 87 g of DAP would have left 183.4 g
C25_Witness ==
    /\ FixedPath
    /\ stcrArgs.crop = StrArecanut
    /\ stcrArgs.soil_n = "low" /\ stcrArgs.soil_p = "low"
    /\ stcrOut.n_required = 1000
    /\ stcrOut.urea_kg = 2174
    /\ stcrOut.dap_kg = 870

----------------------------------------------------------------------------
(* Properties of the request entry point                                   *)

ReqCalled == reqIn # NoCall

\* the crop of the request is a string that is not in the crop table
UnknownCrop ==
    /\ CropOf(reqIn).kind = "str"
    /\ Lower(CropOf(reqIn).s) \notin CROP_NUTRIENT_UPTAKE

\* the request selects precision mode / GPS mode
LabMode == Has(reqIn, "ph") /\ Has(reqIn, "nitrogen_kg_ha")
GpsMode == ~LabMode /\ ReqGet(reqIn, "lat") # None /\ ReqGet(reqIn, "lon") # None

\* C1: process_request never raises: every call returns a success payload
\* or an error result, and a crop that is not in the crop table gives an
\* error result.
C1_NeverRaises ==
    ReqCalled =>
        /\ reqOut.kind \in {"returned", "error"}
        /\ UnknownCrop => reqOut.kind = "error"

\* a string that float() does not accept
NonNumeric(x) == x.kind = "str" /\ ~Float(x).ok

\* apart from the values under test the request is complete and valid: a
\* crop of the table, all four lab keys when in precision mode, a
\* parseable zinc and rain value, a textual land type
OtherwiseValid ==
    /\ CropOf(reqIn).kind = "str"
    /\ ~UnknownCrop
    /\ LabMode => Has(reqIn, "phosphorus_kg_ha") /\ Has(reqIn, "potassium_kg_ha")
    /\ reqIn.zinc_ppm = Absent
    /\ reqIn.rain_forecast_mm.kind \in {"absent", "num"}
    /\ reqIn.land_type.kind \in {"absent", "str"}

\* C2: in precision mode a non-numeric pH, nitrogen, phosphorus or
\* potassium value returns the error result "Invalid numeric values in Soil
\* Data"; in GPS mode a non-numeric latitude or longitude returns
\* "Invalid Latitude/Longitude".  Checked on requests that are valid apart
\* from the value in question.
C2_MalformedNumberIsError ==
    (ReqCalled /\ OtherwiseValid) =>
        /\ ( /\ LabMode
             /\ \/ NonNumeric(reqIn.ph)
                \/ NonNumeric(reqIn.nitrogen_kg_ha)
                \/ NonNumeric(reqIn.phosphorus_kg_ha)
                \/ NonNumeric(reqIn.potassium_kg_ha) )
           => reqOut = ErrorResult("Invalid numeric values in Soil Data")
        /\ ( /\ GpsMode
             /\ NonNumeric(reqIn.lat) \/ NonNumeric(reqIn.lon) )
           => reqOut = ErrorResult("Invalid Latitude/Longitude")

\* the optional manure_loads and rain_forecast_mm are missing or are text
\* that is no number
MissingOrUnparseable(x) == x = Absent \/ NonNumeric(x)

\* apart from manure_loads and rain_forecast_mm the request is complete
\* and valid
ValidButOptional ==
    /\ CropOf(reqIn).kind = "str"
    /\ ~UnknownCrop
    /\ LabMode =>
        /\ Float(reqIn.ph).ok
        /\ Has(reqIn, "phosphorus_kg_ha") /\ Has(reqIn, "potassium_kg_ha")
    /\ GpsMode => Float(reqIn.lat).ok /\ Float(reqIn.lon).ok
    /\ LabMode \/ GpsMode
    /\ reqIn.zinc_ppm = Absent
    /\ reqIn.land_type.kind \in {"absent", "str"}

\* C19: when manure_loads and rain_forecast_mm are missing or not parseable
\* as numbers, an otherwise valid request returns status "success", with
\* no manure credit.
C19_OptionalFieldsDefaultToZero ==
    ( /\ ReqCalled
      /\ ValidButOptional
      /\ MissingOrUnparseable(reqIn.manure_loads)
      /\ MissingOrUnparseable(reqIn.rain_forecast_mm) )
    => /\ reqOut.kind = "returned"
       /\ reqOut.status = "success"
       /\ ~reqOut.savings_msg

\* the part of C19 about manure_loads alone: with a parseable rain value
\* the request succeeds without a manure credit
C19_ManureLoadsDefault ==
    ( /\ ReqCalled
      /\ ValidButOptional
      /\ MissingOrUnparseable(reqIn.manure_loads)
      /\ reqIn.rain_forecast_mm.kind \in {"absent", "num"} )
    => /\ reqOut.kind = "returned"
       /\ reqOut.status = "success"
       /\ ~reqOut.savings_msg


----------------------------------------------------------------------------
(* Properties of the advisory plan and of the endpoint                     *)

\* process_request returned an advisory
Succeeded == ReqCalled /\ reqOut.kind = "returned"

\* the crop data of a request that was served
CropOfRequest == CropData(Lower(CropOf(reqIn).s))

\* the mass of a product in the shopping list, in tenths of a kg; 0 when
\* the list has no such item
ShoppingKg(product) ==
    LET at == { i \in 1..Len(reqOut.shopping_list) :
                reqOut.shopping_list[i].product_name = product }
    IN  IF at = {} THEN 0 ELSE reqOut.shopping_list[CHOOSE i \in at : TRUE].total_kg

\* the shopping list has an item of the product
Listed(product) ==
    \E i \in 1..Len(reqOut.shopping_list) : reqOut.shopping_list[i].product_name = product

\* C26: for a yield-target crop such as paddy whose net urea, DAP or MOP
\* mass exceeds 1 kg, the schedule of the advisory built by process_request
\* is not empty: it starts with the basal stage, and a paddy advisory with
\* more than 1 kg at every stage has its three stages.
C26_ScheduleNonEmpty ==
    ( /\ Succeeded
      /\ ~CropOfRequest.fixed_dose
      /\ \/ ShoppingKg(StrUrea) > 10
         \/ ShoppingKg(StrDap) > 10
         \/ ShoppingKg(StrMop) > 10 )
    => /\ Len(reqOut.schedule) > 0
       /\ reqOut.schedule[1].stage_name = "basal"
       /\ ( /\ Lower(CropOf(reqIn).s) = StrPaddy
            /\ ShoppingKg(StrUrea) > 45
            /\ ShoppingKg(StrMop) > 25 )
          => Len(reqOut.schedule) = 3

\* C27: for a fixed-dose crop (arecanut, coconut, pepper) the per-acre
\* urea, DAP and MOP of the shopping list are the per-hectare commercial
\* totals (grams per plant times plants per hectare / 1000, to 0.1 kg)
\* divided by 2.5, less the manure credit.
C27_FixedDosePerHectare ==
    (Succeeded /\ CropOfRequest.fixed_dose) =>
        LET density == PlantsPerHa(Lower(CropOf(reqIn).s))
        IN  \E stcr \in calculate_fertilizer(StcrCall(reqIn, SoilData(reqIn))) :
            \E u \in Round(stcr.urea_kg * density, 1000),
               p \in Round(stcr.dap_kg * density, 1000),
               k \in Round(stcr.mop_kg * density, 1000) :
                LET net == NetMasses([urea_kg |-> u, dap_kg |-> p, mop_kg |-> k,
                                      manure_type |-> ManureCall(reqIn).manure_type,
                                      manure_tons |-> ManureCall(reqIn).manure_tons])
                IN  /\ \E i \in BagsOfMass(StrUrea, net.urea) : ShoppingKg(StrUrea) = i.total_kg
                    /\ \E i \in BagsOfMass(StrDap, net.dap) : ShoppingKg(StrDap) = i.total_kg
                    /\ \E i \in BagsOfMass(StrMop, net.mop) : ShoppingKg(StrMop) = i.total_kg

\* the advisory came from the GPS mode
GpsSucceeded == Succeeded /\ reqOut.mode = "GPS Zone"

\* the profile the resolver gives for the coordinates of the request
ProfileOfRequest ==
    get_profile(Float(reqIn.lat).v, Float(reqIn.lon).v,
                IF reqIn.land_type.kind = "str" THEN reqIn.land_type ELSE NoOverride)

Answered == http # NoCall /\ reqOut # NoCall

\* C30: whenever process_request returns an error result the endpoint
\* answers HTTP 400; it answers 200 only for a successful advisory.
C30_ErrorIs400 ==
    Answered =>
        /\ reqOut.kind = "error" => http.status = 400
        /\ http.status = 200 => reqOut.kind = "returned"

====
